---- MODULE Spec2Model ----
(***************************************************************************)
(* Turn-processing pipeline of the Agora voice tutor.                      *)
(*                                                                         *)
(* Modelled from backend/app: the Socket.IO transport (api/ws.py), the     *)
(* orchestrator (graph/builder.py), the session state (graph/state.py) and *)
(* the pipeline nodes (graph/nodes/*.py).                                  *)
(*                                                                         *)
(* Reading notes that shape the model:                                     *)
(*  - A TutorState is a Python dict.  active_sessions[sid] and the `state` *)
(*    argument of process_user_input are references to the same dict, so   *)
(*    dicts live in `heap` and are named by object ids.  graph.ainvoke     *)
(*    hands every node a dict of its own and returns a new dict; the       *)
(*    `messages` list is never copied, so one list (in `lists`) is shared  *)
(*    by every dict that descends from one create_initial_state call.      *)
(*  - The provider clients (google.generativeai, qdrant_client) are called *)
(*    synchronously inside the nodes, so a node runs without suspension;   *)
(*    the event loop can switch handlers only between nodes, while         *)
(*    graph.ainvoke awaits.  One action per node is therefore exact.       *)
(*  - python-socketio runs every event handler as a task of its own, so    *)
(*    several handlers of one connection can be in flight.                 *)
(*  - Fields no modelled statement reads (course_id, last_audio_format,    *)
(*    rag_query, consecutive_same_questions, processing_time and all       *)
(*    timestamps) are left out of the state record.                        *)
(***************************************************************************)
EXTENDS Integers, Sequences, FiniteSets, TLC

\* ------------------------------------------------------------------ bounds

\* Calls of process_user_input started over a whole run.
MaxTurns == 2

\* settings.memory_update_interval (config.py:69) is an environment setting
\* whose default is 5; the model instantiates it small enough for interval
\* turns to be reached within MaxTurns.
memory_update_interval == 2

\* Turns already processed by the session a SpecTurn behaviour starts from.
MaxPriorTurns == 5

\* ------------------------------------------------------- program constants

MaxFrustration == 5

None == "None"

\* --------------------------------------------------- Python str operations

Char(s, i) == SubSeq(s, i, i)

UpperLetters == "ABCDEFGHIJKLMNOPQRSTUVWXYZ"

LowerLetters == "abcdefghijklmnopqrstuvwxyz"

Whitespace == {" ", "\n", "\t"}

LowerChar(c) ==
    IF \E i \in 1..26 : Char(UpperLetters, i) = c
    THEN Char(LowerLetters, CHOOSE i \in 1..26 : Char(UpperLetters, i) = c)
    ELSE c

UpperChar(c) ==
    IF \E i \in 1..26 : Char(LowerLetters, i) = c
    THEN Char(UpperLetters, CHOOSE i \in 1..26 : Char(LowerLetters, i) = c)
    ELSE c

RECURSIVE lower(_)
lower(s) == IF s = "" THEN "" ELSE LowerChar(Head(s)) \o lower(Tail(s))

RECURSIVE upper(_)
upper(s) == IF s = "" THEN "" ELSE UpperChar(Head(s)) \o upper(Tail(s))

RECURSIVE lstrip(_)
lstrip(s) == IF s # "" /\ Head(s) \in Whitespace THEN lstrip(Tail(s)) ELSE s

RECURSIVE rstrip(_)
rstrip(s) ==
    IF s # "" /\ Char(s, Len(s)) \in Whitespace
    THEN rstrip(SubSeq(s, 1, Len(s) - 1))
    ELSE s

strip(s) == rstrip(lstrip(s))

\* s.replace(c, "") for a one-character c
RECURSIVE remove(_, _)
remove(s, c) ==
    IF s = "" THEN ""
    ELSE (IF Head(s) = c THEN "" ELSE Head(s)) \o remove(Tail(s), c)

\* sub in s
contains(sub, s) ==
    \E i \in 1..(Len(s) + 1) :
        /\ i + Len(sub) - 1 <= Len(s)
        /\ SubSeq(s, i, i + Len(sub) - 1) = sub

\* not s or s.strip() == ""
blank(s) == s = "" \/ strip(s) = ""

\* seq[-n:]
LastN(seq, n) ==
    IF n = 0 \/ Len(seq) <= n THEN seq ELSE SubSeq(seq, Len(seq) - n + 1, Len(seq))

\* ------------------------------------------------ visual directive parsing
\* The pattern of socrates.py:131 and quiz.py:103,
\*   \[VISUAL:\s*CREATE_NOTE\s*\|\s*text:\s*"([^"]+)"\s*\|\s*x:\s*(\d+)\s*\|\s*y:\s*(\d+)\]
\* matched from position i of s.  Positions are 1-based; 0 is "no match".
\* No literal of the pattern starts with a character the preceding
\* repetition accepts, so a greedy match without backtracking is exact.

Digits == "0123456789"

IsDigit(c) == \E i \in 1..10 : Char(Digits, i) = c

DigitVal(c) == (CHOOSE i \in 1..10 : Char(Digits, i) = c) - 1

RECURSIVE ParseInt(_)
ParseInt(ds) ==
    IF ds = "" THEN 0
    ELSE ParseInt(SubSeq(ds, 1, Len(ds) - 1)) * 10 + DigitVal(Char(ds, Len(ds)))

RECURSIVE SkipWs(_, _)
SkipWs(s, i) == IF i <= Len(s) /\ Char(s, i) \in Whitespace THEN SkipWs(s, i + 1) ELSE i

Lit(s, i, lit) ==
    IF i + Len(lit) - 1 <= Len(s) /\ SubSeq(s, i, i + Len(lit) - 1) = lit
    THEN i + Len(lit)
    ELSE 0

\* end (exclusive) of the longest run of non-quote characters from i
RECURSIVE NonQuoteEnd(_, _)
NonQuoteEnd(s, i) ==
    IF i <= Len(s) /\ Char(s, i) # "\"" THEN NonQuoteEnd(s, i + 1) ELSE i

RECURSIVE DigitEnd(_, _)
DigitEnd(s, i) ==
    IF i <= Len(s) /\ IsDigit(Char(s, i)) THEN DigitEnd(s, i + 1) ELSE i

\* one-or-more: the run must not be empty
Run1(from, to) == IF to > from THEN to ELSE 0

L(lit) == [kind |-> "lit", lit |-> lit, group |-> FALSE]

Ws == [kind |-> "ws", lit |-> "", group |-> FALSE]

Group(kind) == [kind |-> kind, lit |-> "", group |-> TRUE]

\* the elements of the pattern, in order
VisualPattern ==
    <<L("[VISUAL:"), Ws, L("CREATE_NOTE"), Ws, L("|"), Ws, L("text:"), Ws,
      L("\""), Group("nonquote"), L("\""), Ws, L("|"), Ws, L("x:"), Ws,
      Group("digits"), Ws, L("|"), Ws, L("y:"), Ws, Group("digits"), L("]")>>

\* where element p, matched at i, ends (exclusive); 0 if it does not match
Consume(s, i, p) ==
    CASE p.kind = "lit" -> Lit(s, i, p.lit)
      [] p.kind = "ws" -> SkipWs(s, i)
      [] p.kind = "nonquote" -> Run1(i, NonQuoteEnd(s, i))
      [] p.kind = "digits" -> Run1(i, DigitEnd(s, i))

NoMatch == [ok |-> FALSE, end |-> 0, groups |-> <<>>]

RECURSIVE MatchFrom(_, _, _, _)
MatchNext(s, i, k, groups, j) ==
    IF j = 0 THEN NoMatch
    ELSE MatchFrom(s, j, k + 1,
                   IF VisualPattern[k].group
                   THEN Append(groups, SubSeq(s, i, j - 1))
                   ELSE groups)

MatchFrom(s, i, k, groups) ==
    IF k > Len(VisualPattern)
    THEN [ok |-> TRUE, end |-> i, groups |-> groups]
    ELSE MatchNext(s, i, k, groups, Consume(s, i, VisualPattern[k]))

MatchAt(s, i) == MatchFrom(s, i, 1, <<>>)

\* socrates.py:134-147: the action built from one match
VisualActionOf(m) ==
    [action |-> "CREATE_NOTE",
     payload |-> [text |-> m.groups[1],
                  x |-> ParseInt(m.groups[2]),
                  y |-> ParseInt(m.groups[3])]]

\* re.finditer / re.sub: leftmost non-overlapping matches; the text between
\* the matches is kept.
RECURSIVE Scan(_, _)
ScanFrom(s, i, j, m, rest) ==
    [text |-> SubSeq(s, i, j - 1) \o rest.text,
     actions |-> <<VisualActionOf(m)>> \o rest.actions]

ScanMatch(s, i, j, m) == ScanFrom(s, i, j, m, Scan(s, m.end))

ScanStarts(s, i, starts) ==
    IF starts = {} THEN [text |-> SubSeq(s, i, Len(s)), actions |-> <<>>]
    ELSE ScanMatch(s, i, CHOOSE j \in starts : \A k \in starts : j <= k,
                   MatchAt(s, CHOOSE j \in starts : \A k \in starts : j <= k))

Scan(s, i) == ScanStarts(s, i, {j \in i..Len(s) : MatchAt(s, j).ok})

\* an extraction that stops after the first directive
extract_first_visual_action(response_text) ==
    LET r == Scan(response_text, 1) IN
    [cleaned |-> strip(r.text),
     actions |-> IF r.actions = <<>> THEN <<>> ELSE <<Head(r.actions)>>]

extract_visual_actions(response_text) ==
    LET r == Scan(response_text, 1) IN
    [cleaned |-> strip(r.text), actions |-> r.actions]

\* ------------------------------------------------------------ session state

\* memory_summary is None until load_memory_node has run once.
NoMemory == [present |-> FALSE, mastered |-> {}, confused |-> {}]

EmptyMemory == [present |-> TRUE, mastered |-> {}, confused |-> {}]

\* messages holds the id of the shared list object.
create_initial_state(user_id, session_id, messages) ==
    [user_id |-> user_id,
     session_id |-> session_id,
     messages |-> messages,
     last_user_text |-> "",
     mode |-> "socratic",
     routing |-> None,
     rag_context |-> <<>>,
     memory_summary |-> NoMemory,
     turn_count |-> 0,
     frustration_level |-> 0,
     response_text |-> "",
     visual_actions |-> <<>>,
     should_tts |-> TRUE,
     audio_data |-> None,
     error |-> None]

\* an append that keeps the last two messages
add_message_windowed(list, role, content) ==
    LastN(Append(list, [role |-> role, content |-> content]), 2)

\* state["messages"].append(message), on the list itself
add_message(list, role, content) == Append(list, [role |-> role, content |-> content])

RECURSIVE JoinLines(_)
JoinLines(lines) ==
    IF lines = <<>> THEN ""
    ELSE IF Len(lines) = 1 THEN lines[1]
    ELSE lines[1] \o "\n" \o JoinLines(Tail(lines))

get_conversation_context(messages, max_turns) ==
    LET recent == IF max_turns # 0 THEN LastN(messages, max_turns * 2) ELSE messages IN
    JoinLines([i \in 1..Len(recent) |->
                  (IF recent[i].role = "student" THEN "Student" ELSE "Tutor")
                      \o ": " \o recent[i].content])

\* ----------------------------------------------------------- pipeline nodes
\* A node is a function of the dict it is given and of what its provider
\* calls return.  Its result: the dict it returns, the provider calls it
\* made (in order), whether an exception left the node, and (update_memory
\* only) the point it upserted.

Ev(kind, name, arg) == [kind |-> kind, name |-> name, arg |-> arg]

Call(name) == Ev("call", name, "")

Fail(name) == Ev("fail", name, "")

NoWrite == [done |-> FALSE, user_id |-> "", session_id |-> "", memory_data |-> NoMemory]

Out(state, events) == [state |-> state, events |-> events, raised |-> FALSE, write |-> NoWrite]

\* a load that skips the removal
keep_confused(all_confused, all_mastered) == all_confused

\* memory.py:83: topics now mastered leave the confused list
not_mastered(all_confused, all_mastered) == all_confused \ all_mastered

\* a load that keeps the topics every record has
load_memory_node_common(state, fetch) ==
    IF ~fetch.ok
    THEN Out([state EXCEPT !.memory_summary = EmptyMemory,
                           !.error = "Memory load error"],
             <<Call("get_memory"), Fail("get_memory")>>)
    ELSE IF fetch.records = {}
    THEN Out([state EXCEPT !.memory_summary = EmptyMemory], <<Call("get_memory")>>)
    ELSE Out([state EXCEPT !.memory_summary =
                 [present |-> TRUE,
                  mastered |-> {x \in UNION {m.memory_data.mastered : m \in fetch.records} :
                                   \A m \in fetch.records : x \in m.memory_data.mastered},
                  confused |-> {x \in UNION {m.memory_data.confused : m \in fetch.records} :
                                   \A m \in fetch.records : x \in m.memory_data.confused}]],
             <<Call("get_memory")>>)

\* memory.py:31-116.  fetch: [ok, records]; records is what get_memory
\* returns for the user.
load_memory_node(state, fetch) ==
    IF ~fetch.ok
    THEN Out([state EXCEPT !.memory_summary = EmptyMemory,
                           !.error = "Memory load error"],
             <<Call("get_memory"), Fail("get_memory")>>)
    ELSE IF fetch.records = {}
    THEN Out([state EXCEPT !.memory_summary = EmptyMemory], <<Call("get_memory")>>)
    ELSE LET all_mastered == UNION {m.memory_data.mastered : m \in fetch.records}
             all_confused == UNION {m.memory_data.confused : m \in fetch.records}
         IN  Out([state EXCEPT !.memory_summary =
                      [present |-> TRUE,
                       mastered |-> all_mastered,
                       confused |-> not_mastered(all_confused, all_mastered)]],
                 <<Call("get_memory")>>)

\* label checks that begin with the quiz
classify_quiz_first(classification) ==
    IF contains("QUIZ", classification) THEN "quiz_me"
    ELSE IF contains("NEW_QUESTION", classification) THEN "new_question"
    ELSE IF contains("ANSWER_TO_MY_QUESTION", classification) THEN "answer_to_my_question"
    ELSE IF contains("FRUSTRATED", classification) \/ contains("FRUSTRATION", classification)
         THEN "frustrated_interruption"
    ELSE IF contains("VISUAL", classification) THEN "request_for_visual"
    ELSE "new_question"

\* router.py:86-104: the label checks, in their order, on the stripped and
\* upper-cased reply.
classify(classification) ==
    IF contains("NEW_QUESTION", classification) THEN "new_question"
    ELSE IF contains("ANSWER_TO_MY_QUESTION", classification) THEN "answer_to_my_question"
    ELSE IF contains("FRUSTRATED", classification) \/ contains("FRUSTRATION", classification)
         THEN "frustrated_interruption"
    ELSE IF contains("VISUAL", classification) \/ contains("REQUEST_FOR_VISUAL", classification)
         THEN "request_for_visual"
    ELSE IF contains("QUIZ", classification) THEN "quiz_me"
    ELSE "new_question"

\* a router that counts every frustrated turn
router_node_unbounded(state, reply) ==
    IF blank(state.last_user_text)
    THEN Out([state EXCEPT !.routing = "new_question"], <<>>)
    ELSE IF ~reply.ok
    THEN Out([state EXCEPT !.routing = "new_question", !.error = "Router error"],
             <<Call("generate_text"), Fail("generate_text")>>)
    ELSE Out([state EXCEPT
                 !.routing = classify(upper(strip(reply.text))),
                 !.frustration_level =
                     IF classify(upper(strip(reply.text))) = "frustrated_interruption"
                     THEN @ + 1 ELSE @],
             <<Call("generate_text")>>)

\* a handler that leaves routing as the previous turn set it, and a blank
\* check that comes after the call
router_node_keeps_routing(state, reply) ==
    IF ~reply.ok
    THEN Out([state EXCEPT !.error = "Router error"],
             <<Call("generate_text"), Fail("generate_text")>>)
    ELSE IF blank(state.last_user_text)
    THEN Out([state EXCEPT !.routing = "new_question"], <<Call("generate_text")>>)
    ELSE Out([state EXCEPT
                 !.routing = classify(upper(strip(reply.text))),
                 !.frustration_level =
                     IF classify(upper(strip(reply.text))) = "frustrated_interruption"
                     THEN (IF @ + 1 < MaxFrustration THEN @ + 1 ELSE MaxFrustration)
                     ELSE @],
             <<Call("generate_text")>>)

\* router.py:28-130.  reply: [ok, text] of gemini_service.generate_text.
router_node(state, reply) ==
    IF blank(state.last_user_text)
    THEN Out([state EXCEPT !.routing = "new_question"], <<>>)
    ELSE IF ~reply.ok
    THEN Out([state EXCEPT !.routing = "new_question", !.error = "Router error"],
             <<Call("generate_text"), Fail("generate_text")>>)
    ELSE LET routing == classify(upper(strip(reply.text))) IN
         Out([state EXCEPT
                 !.routing = routing,
                 !.frustration_level =
                     IF routing = "frustrated_interruption"
                     THEN (IF @ + 1 < MaxFrustration THEN @ + 1 ELSE MaxFrustration)
                     ELSE @],
             <<Call("generate_text")>>)

\* a prompt that also shows the previous label
router_prompt_with_routing(state, messages) ==
    "Conversation Context:\n" \o get_conversation_context(messages, 3)
        \o "\n\nStudent's Latest Input: " \o state.last_user_text
        \o "\n\nPrevious: " \o state.routing \o "\n\nClassification:"

\* router.py:55-68: what the classifier is shown
router_prompt(state, messages) ==
    "Conversation Context:\n" \o get_conversation_context(messages, 3)
        \o "\n\nStudent's Latest Input: " \o state.last_user_text
        \o "\n\nClassification:"

generic_queries ==
    {"what is in that pdf",
     "what is in my pdf",
     "what are my notes about",
     "tell me about my document",
     "what is this pdf about",
     "so what is in that pdf you tell me",
     "give me an idea first"}

BroadQuery == "A general summary of all topics, concepts, and content in the document."

\* a normalisation that forgets lower()
rag_query_text_cased(last_user_text) ==
    LET normalized_query == remove(remove(strip(last_user_text), "?"), ".")
        is_generic_query == \E q \in generic_queries : contains(q, normalized_query)
    IN  IF is_generic_query THEN BroadQuery ELSE last_user_text

\* rag.py:42-65: the query that is embedded for an utterance
rag_query_text(last_user_text) ==
    LET normalized_query == remove(remove(strip(lower(last_user_text)), "?"), ".")
        is_generic_query == \E q \in generic_queries : contains(q, normalized_query)
    IN  IF is_generic_query THEN BroadQuery ELSE last_user_text

\* a retrieval stage that retrieves for every intent
needs_retrieval_any(routing) == TRUE

\* rag.py:34-35
needs_retrieval(routing) == routing \in {"new_question", "quiz_me"}

\* a handler that lets the exception leave the node
rag_failed_reraise(state, events) == [Out(state, events) EXCEPT !.raised = TRUE]

\* rag.py:134-146
rag_failed(state, events) ==
    Out([state EXCEPT !.rag_context = <<>>, !.error = "RAG error"], events)

\* a retrieval that adds to what the state holds
rag_node_merging(state, embed_ok, search) ==
    IF ~needs_retrieval(state.routing)
    THEN Out(state, <<>>)
    ELSE IF blank(rag_query_text(state.last_user_text))
    THEN Out(state, <<>>)
    ELSE IF ~embed_ok
    THEN rag_failed(state, <<Ev("call", "embed_query", rag_query_text(state.last_user_text)),
                             Fail("embed_query")>>)
    ELSE IF ~search.ok
    THEN rag_failed(state, <<Ev("call", "embed_query", rag_query_text(state.last_user_text)),
                             Call("search_notes"), Fail("search_notes")>>)
    ELSE Out([state EXCEPT !.rag_context = @ \o search.results],
             <<Ev("call", "embed_query", rag_query_text(state.last_user_text)),
               Call("search_notes")>>)

\* rag.py:14-146.  embed_ok: embed_query returned; search: [ok, results] of
\* search_notes.
rag_node(state, embed_ok, search) ==
    IF ~needs_retrieval(state.routing)
    THEN Out([state EXCEPT !.rag_context = <<>>], <<>>)
    ELSE LET query_text == rag_query_text(state.last_user_text) IN
         IF blank(query_text)
         THEN Out([state EXCEPT !.rag_context = <<>>], <<>>)
         ELSE IF ~embed_ok
         THEN rag_failed(state, <<Ev("call", "embed_query", query_text),
                                  Fail("embed_query")>>)
         ELSE IF ~search.ok
         THEN rag_failed(state, <<Ev("call", "embed_query", query_text),
                                  Call("search_notes"), Fail("search_notes")>>)
         ELSE Out([state EXCEPT !.rag_context = search.results],
                  <<Ev("call", "embed_query", query_text), Call("search_notes")>>)

SocratesFallback == "I'm having trouble processing that. Could you rephrase your question?"

QuizFallback ==
    "Let's start with a question: Can you explain the main concept we've been discussing?"

\* a generator whose failure leaves the turn without speech
socrates_node_silent(state, reply) ==
    IF ~reply.ok
    THEN Out([state EXCEPT !.response_text = SocratesFallback,
                           !.visual_actions = <<>>,
                           !.should_tts = FALSE,
                           !.error = "Socrates error"],
             <<Call("generate_text"), Fail("generate_text")>>)
    ELSE Out([state EXCEPT !.response_text = extract_visual_actions(reply.text).cleaned,
                           !.visual_actions = extract_visual_actions(reply.text).actions,
                           !.should_tts = TRUE],
             <<Call("generate_text")>>)

\* socrates.py:161-233.  reply: [ok, text] of gemini_service.generate_text.
socrates_node(state, reply) ==
    IF ~reply.ok
    THEN Out([state EXCEPT !.response_text = SocratesFallback,
                           !.visual_actions = <<>>,
                           !.should_tts = TRUE,
                           !.error = "Socrates error"],
             <<Call("generate_text"), Fail("generate_text")>>)
    ELSE LET ex == extract_visual_actions(reply.text) IN
         Out([state EXCEPT !.response_text = ex.cleaned,
                           !.visual_actions = ex.actions,
                           !.should_tts = TRUE],
             <<Call("generate_text")>>)

\* a quiz generator that switches the session's mode
quiz_node_switching(state, reply) ==
    IF ~reply.ok
    THEN Out([state EXCEPT !.response_text = QuizFallback,
                           !.visual_actions = <<>>,
                           !.should_tts = TRUE,
                           !.error = "Quiz error"],
             <<Call("generate_text"), Fail("generate_text")>>)
    ELSE Out([state EXCEPT !.response_text = extract_visual_actions(reply.text).cleaned,
                           !.visual_actions = extract_visual_actions(reply.text).actions,
                           !.should_tts = TRUE,
                           !.mode = "quiz"],
             <<Call("generate_text")>>)

\* quiz.py:30-154
quiz_node(state, reply) ==
    IF ~reply.ok
    THEN Out([state EXCEPT !.response_text = QuizFallback,
                           !.visual_actions = <<>>,
                           !.should_tts = TRUE,
                           !.error = "Quiz error"],
             <<Call("generate_text"), Fail("generate_text")>>)
    ELSE LET ex == extract_visual_actions(reply.text) IN
         Out([state EXCEPT !.response_text = ex.cleaned,
                           !.visual_actions = ex.actions,
                           !.should_tts = TRUE],
             <<Call("generate_text")>>)

\* memory.py:147: the dialogue shown to the analysis
analysis_context(messages) == get_conversation_context(messages, memory_update_interval)

\* an update stage without the interval check
at_update_interval_always(state) == TRUE

\* memory.py:139-140
at_update_interval(state) == state.turn_count % memory_update_interval = 0

\* an update that replaces the summary by the analysis
update_memory_node_replacing(state, messages, analysis, embed_ok, upsert_ok) ==
    IF ~at_update_interval(state)
    THEN Out(state, <<>>)
    ELSE IF blank(analysis_context(messages))
    THEN Out(state, <<>>)
    ELSE IF ~analysis.ok
    THEN Out([state EXCEPT !.error = "Memory update error"],
             <<Call("generate_json"), Fail("generate_json")>>)
    ELSE IF ~embed_ok
    THEN Out([state EXCEPT !.error = "Memory update error",
                           !.memory_summary =
                               [present |-> TRUE, mastered |-> analysis.mastered,
                                confused |-> analysis.confused \ analysis.mastered]],
             <<Call("generate_json"), Call("embed_text"), Fail("embed_text")>>)
    ELSE IF ~upsert_ok
    THEN Out([state EXCEPT !.error = "Memory update error",
                           !.memory_summary =
                               [present |-> TRUE, mastered |-> analysis.mastered,
                                confused |-> analysis.confused \ analysis.mastered]],
             <<Call("generate_json"), Call("embed_text"),
               Call("upsert_memory"), Fail("upsert_memory")>>)
    ELSE [state |-> [state EXCEPT !.memory_summary =
                        [present |-> TRUE, mastered |-> analysis.mastered,
                         confused |-> analysis.confused \ analysis.mastered]],
          events |-> <<Call("generate_json"), Call("embed_text"), Call("upsert_memory")>>,
          raised |-> FALSE,
          write |-> [done |-> TRUE,
                     user_id |-> state.user_id,
                     session_id |-> state.session_id,
                     memory_data |-> [present |-> TRUE, mastered |-> analysis.mastered,
                                      confused |-> analysis.confused \ analysis.mastered]]]

\* memory.py:119-237.  messages: the content of the shared list; analysis:
\* [ok, mastered, confused] of generate_json; embed_ok, upsert_ok: whether
\* embed_text and upsert_memory returned.
update_memory_node(state, messages, analysis, embed_ok, upsert_ok) ==
    IF ~at_update_interval(state)
    THEN Out(state, <<>>)
    ELSE IF blank(analysis_context(messages))
    THEN Out(state, <<>>)
    ELSE IF ~analysis.ok
    THEN Out([state EXCEPT !.error = "Memory update error"],
             <<Call("generate_json"), Fail("generate_json")>>)
    ELSE LET current_memory ==
                 IF state.memory_summary.present THEN state.memory_summary ELSE EmptyMemory
             new_mastered == current_memory.mastered \cup analysis.mastered
             new_confused == (current_memory.confused \cup analysis.confused) \ new_mastered
             updated_memory ==
                 [present |-> TRUE, mastered |-> new_mastered, confused |-> new_confused]
             updated == [state EXCEPT !.memory_summary = updated_memory]
         IN  IF ~embed_ok
             THEN Out([updated EXCEPT !.error = "Memory update error"],
                      <<Call("generate_json"), Call("embed_text"), Fail("embed_text")>>)
             ELSE IF ~upsert_ok
             THEN Out([updated EXCEPT !.error = "Memory update error"],
                      <<Call("generate_json"), Call("embed_text"),
                        Call("upsert_memory"), Fail("upsert_memory")>>)
             ELSE [state |-> updated,
                   events |-> <<Call("generate_json"), Call("embed_text"),
                                Call("upsert_memory")>>,
                   raised |-> FALSE,
                   write |-> [done |-> TRUE,
                              user_id |-> state.user_id,
                              session_id |-> state.session_id,
                              memory_data |-> updated_memory]]

\* tts_node.py:13-79.  get_global_tts is a coroutine function
\* (tts_service.py:327) and line 46 calls it without await, so tts_service
\* is a coroutine object and line 54 raises AttributeError before any
\* provider is reached; the node's handler catches it.
tts_node(state) ==
    IF ~state.should_tts
    THEN Out([state EXCEPT !.audio_data = None], <<>>)
    ELSE IF blank(state.response_text)
    THEN Out([state EXCEPT !.audio_data = None], <<>>)
    ELSE Out([state EXCEPT !.audio_data = None, !.error = "TTS error"],
             <<Fail("get_global_tts")>>)

\* an edge that never leads to the quiz
routing_decision_socrates(state) == "socrates"

\* builder.py:57-78
routing_decision(state) == IF state.routing = "quiz_me" THEN "quiz" ELSE "socrates"

\* an entry that forgets the counter
begin_turn_uncounted(state, user_text) ==
    [state EXCEPT !.last_user_text = user_text, !.error = None]

\* an entry that leaves the error of the previous turn
begin_turn_keeps_error(state, user_text) ==
    [state EXCEPT !.last_user_text = user_text, !.turn_count = @ + 1]

\* builder.py:200-205: the writes on the dict the caller passed in
begin_turn(state, user_text) ==
    [state EXCEPT !.last_user_text = user_text,
                  !.turn_count = @ + 1,
                  !.error = None]

ProcessingFallback == "I encountered an error processing your input. Please try again."

\* a handler that leaves should_tts as it finds it
fail_turn_keeps_tts(state) ==
    [state EXCEPT !.error = "Processing error",
                  !.response_text = ProcessingFallback]

\* builder.py:249-252: the top-level handler's writes, on the same dict
fail_turn(state) ==
    [state EXCEPT !.error = "Processing error",
                  !.response_text = ProcessingFallback,
                  !.should_tts = FALSE]

\* an upsert that adds a point whatever the store holds
insert_memory(store, write) ==
    store \cup {[user_id |-> write.user_id,
                 session_id |-> write.session_id,
                 memory_data |-> write.memory_data]}

\* qdrant_client.py:341-356: one point per "memory:{user_id}:{session_id}"
upsert_memory(store, write) ==
    {p \in store : ~(p.user_id = write.user_id /\ p.session_id = write.session_id)}
        \cup {[user_id |-> write.user_id,
               session_id |-> write.session_id,
               memory_data |-> write.memory_data]}

\* a scroll without the user_id filter
get_memory_of_all(store, user_id) == store

\* qdrant_client.py:394-406: the points the scroll filter lets through
get_memory(store, user_id) == {p \in store : p.user_id = user_id}

\* memory.py:51: the limit load_memory_node passes to get_memory
memory_limit == 5

\* qdrant_client.py:396-406: the pages a scroll with a limit can return.  It
\* returns every matching point when there are no more than the limit, and
\* otherwise the first `limit` of them in the order of their point ids,
\* which are made of session ids the server does not choose: any `limit`
\* of the matching points.
scroll(records, limit) ==
    IF Cardinality(records) <= limit
    THEN {records}
    ELSE {page \in SUBSET records : Cardinality(page) = limit}

\* ------------------------------------------------------ environment inputs

Sids == {"c1", "c2"}

MaxTasks == 2

Tasks == 1..MaxTasks

Users == {"u1"}

\* init_session's session_id, as the client of each connection sends it
SessionIdOf(sid) == IF sid = "c1" THEN "s1" ELSE "s2"

Failed == [ok |-> FALSE, text |-> ""]

Reply(text) == [ok |-> TRUE, text |-> text]

Passage == [text |-> "Recursion needs a base case.", score |-> 80]

NoSearch == [ok |-> FALSE, results |-> <<>>]

Found(results) == [ok |-> TRUE, results |-> results]

RagOutcome(embed_ok, search) == [embed_ok |-> embed_ok, search |-> search]

NoAnalysis == [ok |-> FALSE, mastered |-> {}, confused |-> {}]

Analysis(mastered, confused) == [ok |-> TRUE, mastered |-> mastered, confused |-> confused]

MemoryOutcome(analysis, embed_ok, upsert_ok) ==
    [analysis |-> analysis, embed_ok |-> embed_ok, upsert_ok |-> upsert_ok]

PlainResponse == "What do you already know?"

NoteResponse ==
    "Think of the base case. [VISUAL: CREATE_NOTE | text: \"base case\" | x: 100 | y: 200]"

OnlyNoteResponse == "[VISUAL: CREATE_NOTE | text: \"hint\" | x: 1 | y: 2]"

\* What the providers answer while turns of several connections interleave
ServerInputs ==
    [texts |-> {"I don't understand recursion"},
     fetch |-> {TRUE},
     router |-> {Reply(" FRUSTRATED_INTERRUPTION\n"), Reply("Quiz_Me")},
     rag |-> {RagOutcome(TRUE, Found(<<Passage>>))},
     generator |-> {Reply(NoteResponse)},
     memory |-> {MemoryOutcome(Analysis({"recursion"}, {"loops"}), TRUE, TRUE)},
     graph_raises |-> BOOLEAN]

\* What the providers may answer in one turn: every label, every failure
TurnInputs ==
    [texts |-> {" ", "What is in that PDF?"},
     fetch |-> BOOLEAN,
     router |-> {Failed} \cup
                {Reply(c) : c \in {"NEW_QUESTION", "answer_to_my_question",
                                   " FRUSTRATED_INTERRUPTION\n", "REQUEST_FOR_VISUAL",
                                   "Quiz_Me", "unsure"}},
     rag |-> {RagOutcome(FALSE, NoSearch), RagOutcome(TRUE, NoSearch),
              RagOutcome(TRUE, Found(<<>>)), RagOutcome(TRUE, Found(<<Passage>>))},
     generator |-> {Failed, Reply(PlainResponse), Reply(NoteResponse), Reply(OnlyNoteResponse)},
     memory |-> {MemoryOutcome(NoAnalysis, TRUE, TRUE)} \cup
                {MemoryOutcome(a, e[1], e[2]) :
                    a \in {Analysis({}, {"loops"}),
                           Analysis({"recursion"}, {"recursion", "loops"})},
                    e \in {<<FALSE, TRUE>>, <<TRUE, FALSE>>, <<TRUE, TRUE>>}},
     graph_raises |-> BOOLEAN]

\* What earlier runs of the server may have left in the recall store.
OldPoint(session_id, mastered, confused) ==
    [user_id |-> "u1", session_id |-> session_id,
     memory_data |-> [present |-> TRUE, mastered |-> mastered, confused |-> confused]]

InitialStores ==
    {{},
     {OldPoint("s8", {"loops"}, {"pointers"}), OldPoint("s9", {}, {"loops"})}}

\* -------------------------------------------------------------- the machine

VARIABLES
    active_sessions,   \* ws.py:39: sid -> object id of the session's dict, 0 if absent
    heap,              \* object id -> TutorState dict
    lists,             \* list id -> content of a messages list
    tasks,             \* the 'text' handlers in flight
    memory_store,      \* the recall collection
    started,           \* turns started so far
    returned,          \* what process_user_input returned in the last step, if it did
    emitted,           \* the events the last step sent with sio.emit, and to whom
    upload_status,     \* materials.py:22: job_id -> the job's status entry
    jobs,              \* the background tasks of the uploads: position and reports
    chunker            \* one call of chunk_text: its argument, start and chunks

vars == <<active_sessions, heap, lists, tasks, memory_store, started, returned, emitted,
          upload_status, jobs, chunker>>

tutor_vars == <<active_sessions, heap, lists, tasks, memory_store, started, returned, emitted>>

ingest_vars == <<upload_status, jobs, chunker>>

\* sio.emit(event, {key: value}, to=sid)
Emit(event, key, value) == [event |-> event, key |-> key, value |-> value]

Sent(sid, events) == [sid |-> sid, events |-> events]

NoEmit == Sent("", <<>>)

\* ws.py:309-351: what process_and_respond sends once process_user_input
\* has returned result_state
visual_events(visual_actions) ==
    [i \in 1..Len(visual_actions) |->
        Emit("visual", visual_actions[i].action, visual_actions[i].payload)]

\* a response that reports completion before anything else
responses_status_first(result_state) ==
    <<Emit("session_status", "status", "complete")>>
    \o (IF result_state.response_text # ""
        THEN <<Emit("transcript", "tutor", result_state.response_text)>> ELSE <<>>)
    \o visual_events(result_state.visual_actions)

responses(result_state) ==
    (IF result_state.response_text # ""
     THEN <<Emit("transcript", "tutor", result_state.response_text)>> ELSE <<>>)
    \o visual_events(result_state.visual_actions)
    \o (IF result_state.audio_data # None
        THEN <<Emit("audio_response", "data", result_state.audio_data)>> ELSE <<>>)
    \o <<Emit("session_status", "status", "complete")>>

ObjIds == 1..(Cardinality(Sids) + MaxTasks)

GraphPcs == {"load_memory", "router", "rag", "socrates", "quiz", "update_memory", "tts"}

NoBefore ==
    [turn_count |-> 0, frustration_level |-> 0, memory_summary |-> NoMemory,
     messages |-> <<>>]

IdleTask ==
    [pc |-> "idle", sid |-> "", obj |-> 0, st |-> create_initial_state("", "", 0),
     before |-> NoBefore, stage |-> NoBefore, trace |-> <<>>]

NoReturn ==
    [valid |-> FALSE, sid |-> "", escaped |-> FALSE, before |-> NoBefore,
     state |-> create_initial_state("", "", 0), messages |-> <<>>, trace |-> <<>>]

InFlight(t) == tasks[t].pc # "idle"

LiveObjs(as, tk) == ({as[s] : s \in Sids} \cup {tk[t].obj : t \in Tasks}) \ {0}

LiveLists(hp, tk) ==
    {hp[o].messages : o \in DOMAIN hp}
        \cup {tk[t].st.messages : t \in {u \in Tasks : tk[u].pc # "idle"}}

Smallest(S) == CHOOSE x \in S : \A y \in S : x <= y

FreshObj(as, tk) == Smallest(ObjIds \ LiveObjs(as, tk))

FreshList == Smallest(ObjIds \ LiveLists(heap, tasks))

\* What a stage or a turn is later compared with
Snapshot(state, messages) ==
    [turn_count |-> state.turn_count, frustration_level |-> state.frustration_level,
     memory_summary |-> state.memory_summary, messages |-> messages]

\* The next values of the references and of the two stores they point
\* into; dicts and lists nothing refers to any more are dropped.
Commit(as, tk, hp, ls) ==
    LET live == LiveObjs(as, tk)
        hp2 == [o \in live |-> hp[o]]
        ll == LiveLists(hp2, tk)
    IN  /\ active_sessions' = as
        /\ tasks' = tk
        /\ heap' = hp2
        /\ lists' = [l \in ll |-> ls[l]]

\* no upload and no call of chunk_text
NoIngest ==
    /\ upload_status = <<>>
    /\ jobs = <<>>
    /\ chunker = [pc |-> "idle", text |-> [len |-> 0, periods |-> {}, newlines |-> {},
                                           spaces |-> {}],
                  start |-> 0, chunks |-> <<>>]

Init ==
    /\ active_sessions = [s \in Sids |-> 0]
    /\ heap = <<>>
    /\ lists = <<>>
    /\ tasks = [t \in Tasks |-> IdleTask]
    /\ memory_store = {}
    /\ started = 0
    /\ returned = NoReturn
    /\ emitted = NoEmit
    /\ NoIngest

\* ws.py:94-138 (with a user_id)
InitSessionAs(sid, user_id) ==
    /\ active_sessions[sid] = 0
    /\ LET l == FreshList
           o == FreshObj(active_sessions, tasks)
       IN  Commit([active_sessions EXCEPT ![sid] = o],
                  tasks,
                  (o :> create_initial_state(user_id, SessionIdOf(sid), l)) @@ heap,
                  (l :> <<>>) @@ lists)
    /\ returned' = NoReturn
    /\ UNCHANGED ingest_vars
    /\ emitted' = Sent(sid, <<Emit("session_initialized", "user_id", user_id)>>)
    /\ UNCHANGED <<memory_store, started>>

InitSession(sid) == \E user_id \in Users : InitSessionAs(sid, user_id)

\* ws.py:81-91
Disconnect(sid) ==
    /\ active_sessions[sid] # 0
    /\ Commit([active_sessions EXCEPT ![sid] = 0], tasks, heap, lists)
    /\ returned' = NoReturn
    /\ UNCHANGED ingest_vars
    /\ emitted' = NoEmit
    /\ UNCHANGED <<memory_store, started>>

\* ws.py:226-265, 286-300 and builder.py:189-220: a 'text' event with a
\* non-empty text, up to the first suspension inside graph.ainvoke.
TextEvent(sid, text_content) ==
    /\ active_sessions[sid] # 0
    /\ \E t \in Tasks :
        /\ ~InFlight(t)
        /\ \A u \in Tasks : ~InFlight(u) => t <= u
        /\ LET o == active_sessions[sid]
               state == heap[o]
               begun == begin_turn(state, text_content)
               l == state.messages
               snap == Snapshot(state, lists[l])
           IN  Commit(active_sessions,
                      [tasks EXCEPT ![t] =
                          [pc |-> "load_memory", sid |-> sid, obj |-> o, st |-> begun,
                           before |-> snap, stage |-> snap, trace |-> <<>>]],
                      [heap EXCEPT ![o] = begun],
                      [lists EXCEPT ![l] = add_message(@, "student", text_content)])
    /\ started' = started + 1
    /\ returned' = NoReturn
    /\ UNCHANGED ingest_vars
    /\ emitted' = Sent(sid, <<Emit("transcript", "student", text_content),
                            Emit("session_status", "message", "Thinking...")>>)
    /\ UNCHANGED memory_store

\* a failed turn that ends its session
EscapeEndsSession(t, trace) ==
    LET o == tasks[t].obj
        failed == fail_turn(heap[o])
    IN  /\ Commit([active_sessions EXCEPT ![tasks[t].sid] = 0],
                  [tasks EXCEPT ![t] = IdleTask],
                  [heap EXCEPT ![o] = failed],
                  lists)
        /\ returned' = [valid |-> TRUE, sid |-> tasks[t].sid, escaped |-> TRUE,
                        before |-> tasks[t].before, state |-> failed,
                        messages |-> lists[failed.messages], trace |-> trace]
        /\ UNCHANGED ingest_vars
        /\ emitted' = Sent(returned'.sid, responses(returned'.state))

\* builder.py:241-254 and ws.py:302-303: an exception reaches the top-level
\* handler; the dict passed in is written, returned and stored.
Escape(t, trace) ==
    LET o == tasks[t].obj
        failed == fail_turn(heap[o])
    IN  /\ Commit([active_sessions EXCEPT ![tasks[t].sid] = o],
                  [tasks EXCEPT ![t] = IdleTask],
                  [heap EXCEPT ![o] = failed],
                  lists)
        /\ returned' = [valid |-> TRUE, sid |-> tasks[t].sid, escaped |-> TRUE,
                        before |-> tasks[t].before, state |-> failed,
                        messages |-> lists[failed.messages], trace |-> trace]
        /\ UNCHANGED ingest_vars
        /\ emitted' = Sent(returned'.sid, responses(returned'.state))

\* builder.py:33-52 and the edges of builder.py:109-136: a node has run
Advance(t, node, out, next) ==
    LET trace == tasks[t].trace \o <<Ev("node", node, "")>> \o out.events IN
    IF out.raised
    THEN Escape(t, trace \o <<Ev("raise", node, "")>>)
    ELSE /\ tasks' = [tasks EXCEPT ![t] =
                         [@ EXCEPT !.pc = next, !.st = out.state, !.trace = trace,
                                   !.stage = Snapshot(tasks[t].st,
                                                      lists[tasks[t].st.messages])]]
         /\ returned' = NoReturn
         /\ UNCHANGED ingest_vars
         /\ emitted' = NoEmit
         /\ UNCHANGED <<active_sessions, heap, lists>>

\* inputs describes the providers while they serve the turn of task t
Serves(t, inputs) == tasks[t].st.last_user_text \in inputs.texts

LoadMemory(t, inputs) ==
    /\ tasks[t].pc = "load_memory"
    /\ Serves(t, inputs)
    /\ \E ok \in inputs.fetch :
        \E records \in scroll(get_memory(memory_store, tasks[t].st.user_id), memory_limit) :
            Advance(t, "load_memory",
                    load_memory_node(tasks[t].st, [ok |-> ok, records |-> records]),
                    "router")
    /\ UNCHANGED <<memory_store, started>>

\* a router whose edge leads straight to the generators
RouterSkipsRag(t, inputs) ==
    /\ tasks[t].pc = "router"
    /\ Serves(t, inputs)
    /\ \E reply \in inputs.router :
        Advance(t, "router", router_node(tasks[t].st, reply),
                routing_decision(router_node(tasks[t].st, reply).state))
    /\ UNCHANGED <<memory_store, started>>

Router(t, inputs) ==
    /\ tasks[t].pc = "router"
    /\ Serves(t, inputs)
    /\ \E reply \in inputs.router :
        Advance(t, "router", router_node(tasks[t].st, reply), "rag")
    /\ UNCHANGED <<memory_store, started>>

Rag(t, inputs) ==
    /\ tasks[t].pc = "rag"
    /\ Serves(t, inputs)
    /\ \E o \in inputs.rag :
        LET out == rag_node(tasks[t].st, o.embed_ok, o.search) IN
        Advance(t, "rag", out, routing_decision(out.state))
    /\ UNCHANGED <<memory_store, started>>

Socrates(t, inputs) ==
    /\ tasks[t].pc = "socrates"
    /\ Serves(t, inputs)
    /\ \E reply \in inputs.generator :
        Advance(t, "socrates", socrates_node(tasks[t].st, reply), "update_memory")
    /\ UNCHANGED <<memory_store, started>>

Quiz(t, inputs) ==
    /\ tasks[t].pc = "quiz"
    /\ Serves(t, inputs)
    /\ \E reply \in inputs.generator :
        Advance(t, "quiz", quiz_node(tasks[t].st, reply), "update_memory")
    /\ UNCHANGED <<memory_store, started>>

UpdateMemory(t, inputs) ==
    /\ tasks[t].pc = "update_memory"
    /\ Serves(t, inputs)
    /\ \E o \in inputs.memory :
        LET out == update_memory_node(tasks[t].st, lists[tasks[t].st.messages],
                                      o.analysis, o.embed_ok, o.upsert_ok)
        IN  /\ Advance(t, "update_memory", out, "tts")
            /\ memory_store' = IF out.write.done
                               THEN upsert_memory(memory_store, out.write)
                               ELSE memory_store
    /\ UNCHANGED started

\* The last node, then builder.py:222-239 and ws.py:302-303: ainvoke hands
\* back a new dict, the tutor message is appended, the dict is stored.
\* tts_node touches its own dict only, so running it at the moment of the
\* return loses no interleaving.
TtsAndReturn(t) ==
    /\ tasks[t].pc = "tts"
    /\ LET out == tts_node(tasks[t].st)
           trace == tasks[t].trace \o <<Ev("node", "tts", "")>> \o out.events
       IN  IF out.raised
           THEN Escape(t, trace \o <<Ev("raise", "tts", "")>>)
           ELSE LET result == out.state
                    l == result.messages
                    ls == IF result.response_text # ""
                          THEN [lists EXCEPT
                                   ![l] = add_message(@, "tutor", result.response_text)]
                          ELSE lists
                    tk == [tasks EXCEPT ![t] = IdleTask]
                    r == FreshObj([active_sessions EXCEPT ![tasks[t].sid] = 0], tk)
                IN  /\ Commit([active_sessions EXCEPT ![tasks[t].sid] = r],
                              tk, (r :> result) @@ heap, ls)
                    /\ returned' = [valid |-> TRUE, sid |-> tasks[t].sid,
                                    escaped |-> FALSE, before |-> tasks[t].before,
                                    state |-> result, messages |-> ls[l],
                                    trace |-> trace]
                    /\ UNCHANGED ingest_vars
                    /\ emitted' = Sent(returned'.sid, responses(returned'.state))
    /\ UNCHANGED <<memory_store, started>>

\* graph.ainvoke itself raises while the turn is suspended in the graph
GraphError(t, inputs) ==
    /\ tasks[t].pc \in GraphPcs
    /\ Serves(t, inputs)
    /\ TRUE \in inputs.graph_raises
    /\ Escape(t, tasks[t].trace \o <<Ev("raise", "graph", "")>>)
    /\ UNCHANGED <<memory_store, started>>

\* One step of a turn that is in flight
TurnStep(t, inputs) ==
    \/ LoadMemory(t, inputs)
    \/ Router(t, inputs)
    \/ Rag(t, inputs)
    \/ Socrates(t, inputs)
    \/ Quiz(t, inputs)
    \/ UpdateMemory(t, inputs)
    \/ TtsAndReturn(t)
    \/ GraphError(t, inputs)

Next ==
    \/ \E sid \in Sids : InitSession(sid)
    \/ \E sid \in Sids : Disconnect(sid)
    \/ \E sid \in Sids, text_content \in ServerInputs.texts :
        started < MaxTurns /\ TextEvent(sid, text_content)
    \/ \E t \in Tasks : TurnStep(t, ServerInputs)

Spec == Init /\ [][Next]_vars

\* ------------------------------------------------- one turn, every outcome
\* One session serves up to MaxPriorTurns turns in which the student is
\* frustrated and the providers answer, then one more turn, on another
\* utterance, in which every provider may answer anything or fail.

PriorText == "I don't understand recursion"

PriorInputs ==
    [texts |-> {PriorText},
     fetch |-> {TRUE},
     router |-> {Reply(" FRUSTRATED_INTERRUPTION\n")},
     rag |-> {RagOutcome(TRUE, Found(<<Passage>>))},
     generator |-> {Reply(NoteResponse)},
     memory |-> {MemoryOutcome(Analysis({"recursion"}, {"loops"}), TRUE, TRUE)},
     graph_raises |-> {FALSE}]

InitTurn ==
    /\ active_sessions = [s \in Sids |-> 0]
    /\ heap = <<>>
    /\ lists = <<>>
    /\ tasks = [t \in Tasks |-> IdleTask]
    /\ memory_store \in InitialStores
    /\ started = 0
    /\ returned = NoReturn
    /\ emitted = NoEmit
    /\ NoIngest

NextTurn ==
    \/ InitSession("c1")
    \/ \E text_content \in PriorInputs.texts \cup TurnInputs.texts :
        /\ active_sessions["c1"] # 0
        /\ heap[active_sessions["c1"]].last_user_text \in {"", PriorText}
        /\ text_content = PriorText => started < MaxPriorTurns
        /\ TextEvent("c1", text_content)
    \/ \E t \in {1} : TurnStep(t, PriorInputs)
    \/ \E t \in {1} : TurnStep(t, TurnInputs)

SpecTurn == InitTurn /\ [][NextTurn]_vars

\* ------------------------------------------------------ the retrieval stage
\* rag_node on the state the router stage leaves for an utterance, in the
\* first turn of a session or in the turn after one that retrieved a
\* passage.

RagTexts ==
    {"what is in that pdf", "WHAT IS IN THAT PDF", "What is in that PDF?",
     "what is in that pdf.", "What is in that pdf?!", "...what is in that pdf???",
     "  What Is In That Pdf  ", "what? is. in that pdf", "\"What is in that PDF\"",
     "what is in that pdf!", "(what is in that pdf)", "what is in, that pdf",
     "what is in that-pdf", "What's in that PDF?", "Tell me about my document.",
     "Explain recursion.", "?", " "}

RagInputs == [TurnInputs EXCEPT !.texts = RagTexts]

\* The nodes in the order of the graph's edges (builder.py:109-136), for a
\* first turn that retrieves a passage.
EarlierTurn ==
    tts_node(
        update_memory_node(
            socrates_node(
                rag_node(
                    router_node(
                        load_memory_node(
                            begin_turn(create_initial_state("u1", "s1", 1), PriorText),
                            [ok |-> TRUE, records |-> {}]).state,
                        Reply("NEW_QUESTION")).state,
                    TRUE, Found(<<Passage>>)).state,
                Reply(NoteResponse)).state,
            add_message(<<>>, "student", PriorText),
            NoAnalysis, TRUE, TRUE).state).state

RagSessions ==
    {[state |-> create_initial_state("u1", "s1", 1), messages |-> <<>>],
     [state |-> EarlierTurn,
      messages |-> add_message(add_message(<<>>, "student", PriorText),
                               "tutor", EarlierTurn.response_text)]}

InitRag ==
    \E session \in RagSessions, text_content \in RagTexts, reply \in RagInputs.router :
        /\ active_sessions = [s \in Sids |-> IF s = "c1" THEN 1 ELSE 0]
        /\ heap = (1 :> begin_turn(session.state, text_content))
        /\ lists = (1 :> add_message(session.messages, "student", text_content))
        /\ tasks = [t \in Tasks |->
                       IF t = 1
                       THEN [pc |-> "rag", sid |-> "c1", obj |-> 1,
                             st |-> router_node(
                                        load_memory_node(heap[1],
                                                         [ok |-> TRUE, records |-> {}]).state,
                                        reply).state,
                             before |-> Snapshot(session.state, session.messages),
                             stage |-> Snapshot(heap[1], lists[1]),
                             trace |-> <<>>]
                       ELSE IdleTask]
        /\ memory_store = {}
        /\ started = 1
        /\ returned = NoReturn
        /\ emitted = NoEmit
        /\ NoIngest

NextRag == \E t \in {1} : Rag(t, RagInputs)

SpecRag == InitRag /\ [][NextRag]_vars

\* --------------------------------------------------- a session's first turn
\* The first utterance of a fresh session is not blank, the classifier
\* answers NEW_QUESTION and the generator answers; every other provider may
\* answer anything or fail.

FirstInputs ==
    [TurnInputs EXCEPT
        !.texts = {PriorText, "What is in that PDF?"},
        !.router = {Reply("NEW_QUESTION"), Reply(" new_question\n")},
        !.generator = {Reply(PlainResponse), Reply(NoteResponse),
                       Reply(OnlyNoteResponse), Reply(" \n")}]

NextFirst ==
    \/ InitSession("c1")
    \/ \E text_content \in FirstInputs.texts :
        started = 0 /\ TextEvent("c1", text_content)
    \/ LoadMemory(1, FirstInputs)
    \/ Router(1, FirstInputs)
    \/ Rag(1, FirstInputs)
    \/ Socrates(1, FirstInputs)
    \/ UpdateMemory(1, FirstInputs)
    \/ TtsAndReturn(1)
    \/ GraphError(1, FirstInputs)

SpecFirst == InitTurn /\ [][NextFirst]_vars

\* ------------------------------------------------------------ audio events
\* One connection sends 'audio' and 'text' events.

AudioData == {"", "UklGRg=="}

\* ws.py:152-190: an 'audio' event that carries data, up to the suspension
\* in the emit of the 'Transcribing...' status.  The handler holds the
\* session's dict from line 165 on.
AudioEvent(sid, audio_data_b64) ==
    /\ active_sessions[sid] # 0
    /\ audio_data_b64 # ""
    /\ \E t \in Tasks :
        /\ ~InFlight(t)
        /\ \A u \in Tasks : ~InFlight(u) => t <= u
        /\ Commit(active_sessions,
                  [tasks EXCEPT ![t] =
                      [IdleTask EXCEPT !.pc = "transcribe",
                                       !.sid = sid,
                                       !.obj = active_sessions[sid],
                                       !.st = heap[active_sessions[sid]]]],
                  heap, lists)
    /\ returned' = NoReturn
    /\ UNCHANGED ingest_vars
    /\ emitted' = Sent(sid, <<Emit("session_status", "message", "Transcribing...")>>)
    /\ UNCHANGED <<memory_store, started>>

\* ws.py:192-223.  get_global_stt is a coroutine function
\* (stt_service.py:283) and line 167 calls it without await, so stt_service
\* is a coroutine object and stt_service.transcribe raises AttributeError
\* before any provider is reached; the handler at 214-223 reports it and the
\* event ends without a call of process_and_respond.
Transcribe(t) ==
    /\ tasks[t].pc = "transcribe"
    /\ Commit(active_sessions, [tasks EXCEPT ![t] = IdleTask], heap, lists)
    /\ returned' = NoReturn
    /\ UNCHANGED ingest_vars
    /\ emitted' = Sent(tasks[t].sid, <<Emit("error", "message", "Audio processing failed")>>)
    /\ UNCHANGED <<memory_store, started>>

NextAudio ==
    \/ InitSession("c1")
    \/ \E audio_data_b64 \in AudioData : AudioEvent("c1", audio_data_b64)
    \/ \E t \in Tasks : Transcribe(t)
    \/ \E text_content \in ServerInputs.texts :
        started < MaxTurns /\ TextEvent("c1", text_content)
    \/ \E t \in Tasks : TurnStep(t, ServerInputs)

SpecAudio == Init /\ [][NextAudio]_vars

\* ------------------------------------------------- a session kept over turns
\* One connection: its turns run one after the other, each with stage
\* failures or an escaping exception, and the client may disconnect and
\* initialise again at any time.

LiveInputs ==
    [texts |-> {PriorText},
     fetch |-> BOOLEAN,
     router |-> {Failed, Reply(" FRUSTRATED_INTERRUPTION\n"), Reply("Quiz_Me")},
     rag |-> {RagOutcome(FALSE, NoSearch), RagOutcome(TRUE, Found(<<Passage>>))},
     generator |-> {Failed, Reply(NoteResponse)},
     memory |-> {MemoryOutcome(NoAnalysis, TRUE, TRUE),
                 MemoryOutcome(Analysis({"recursion"}, {"loops"}), TRUE, FALSE),
                 MemoryOutcome(Analysis({"recursion"}, {"loops"}), TRUE, TRUE)},
     graph_raises |-> BOOLEAN]

NextLive ==
    \/ InitSession("c1")
    \/ Disconnect("c1")
    \/ \E text_content \in LiveInputs.texts :
        /\ started < MaxTurns
        /\ ~InFlight(1)
        /\ TextEvent("c1", text_content)
    \/ \E t \in {1} : TurnStep(t, LiveInputs)

SpecLive == Init /\ [][NextLive]_vars

\* ------------------------------------------------------ the router stage
\* router_node behind a classifier that is a function of the prompt, on
\* two sessions at once.  Each session has had up to two exchanges, in
\* which the student was frustrated every time or never, and its memory
\* was loaded or the load failed.

StubIds == {"keywords", "length", "constant"}

\* Deterministic classifiers: what each answers to a prompt
ClassifierStub(stub, prompt) ==
    CASE stub = "keywords" ->
            IF contains("quiz", prompt) THEN Reply("Quiz_Me")
            ELSE IF contains("Tutor:", prompt) THEN Reply("answer_to_my_question")
            ELSE IF contains("understand", prompt) THEN Reply(" FRUSTRATED_INTERRUPTION\n")
            ELSE Reply("NEW_QUESTION")
      [] stub = "length" ->
            IF Len(prompt) > 120 THEN Failed ELSE Reply("REQUEST_FOR_VISUAL")
      [] stub = "constant" -> Reply("unsure")

\* router_node of builder.py:97, its generate_text answered by the stub
RouterStub(t, stub) ==
    /\ tasks[t].pc = "router"
    /\ LET prompt == router_prompt(tasks[t].st, lists[tasks[t].st.messages])
           out == router_node(tasks[t].st, ClassifierStub(stub, prompt))
       IN  Advance(t, "router",
                   [out EXCEPT !.events = <<Ev("stub", stub, "")>> \o @], "rag")
    /\ UNCHANGED <<memory_store, started>>

RouterTexts == {" ", PriorText, "quiz me"}

Exchange ==
    <<[role |-> "student", content |-> PriorText],
      [role |-> "tutor", content |-> "Think of the base case."]>>

RouterPasts ==
    {[messages |-> <<>>, frustration_level |-> 0, routing |-> None]}
        \cup {[messages |-> Exchange, frustration_level |-> f, routing |-> r] :
                 f \in {0, 1}, r \in {"frustrated_interruption", "quiz_me"}}
        \cup {[messages |-> Exchange \o Exchange, frustration_level |-> f, routing |-> r] :
                 f \in {0, 2}, r \in {"frustrated_interruption", "new_question"}}

RouterLoads ==
    {[memory_summary |-> EmptyMemory, error |-> "Memory load error"],
     [memory_summary |-> [present |-> TRUE, mastered |-> {"loops"}, confused |-> {}],
      error |-> None]}

\* The dict the router stage is given in the turn on text_content
RouterState(sid, list, past, load, text_content) ==
    [create_initial_state("u1", SessionIdOf(sid), list) EXCEPT
        !.last_user_text = text_content,
        !.turn_count = Len(past.messages) \div 2 + 1,
        !.frustration_level = past.frustration_level,
        !.routing = past.routing,
        !.memory_summary = load.memory_summary,
        !.error = load.error]

RouterTask(sid, list, past, load, text_content) ==
    [pc |-> "router", sid |-> sid, obj |-> list,
     st |-> RouterState(sid, list, past, load, text_content),
     before |-> NoBefore, stage |-> NoBefore, trace |-> <<>>]

InitRouter ==
    \E p1 \in RouterPasts, p2 \in RouterPasts, l1 \in RouterLoads, l2 \in RouterLoads,
       x1 \in RouterTexts, x2 \in RouterTexts :
        /\ (p1.routing = "frustrated_interruption") = (p1.frustration_level > 0)
        /\ (p2.routing = "frustrated_interruption") = (p2.frustration_level > 0)
        /\ active_sessions = [s \in Sids |-> IF s = "c1" THEN 1 ELSE 2]
        /\ heap = (1 :> [RouterState("c1", 1, p1, l1, x1) EXCEPT
                            !.memory_summary = NoMemory, !.error = None])
                  @@ (2 :> [RouterState("c2", 2, p2, l2, x2) EXCEPT
                               !.memory_summary = NoMemory, !.error = None])
        /\ lists = (1 :> add_message(p1.messages, "student", x1))
                   @@ (2 :> add_message(p2.messages, "student", x2))
        /\ tasks = [t \in Tasks |->
                       IF t = 1 THEN RouterTask("c1", 1, p1, l1, x1)
                       ELSE IF t = 2 THEN RouterTask("c2", 2, p2, l2, x2)
                       ELSE IdleTask]
        /\ memory_store = {}
        /\ started = 2
        /\ returned = NoReturn
        /\ emitted = NoEmit
        /\ NoIngest

NextRouter == \E t \in Tasks, stub \in StubIds : RouterStub(t, stub)

SpecRouter == InitRouter /\ [][NextRouter]_vars

\* --------------------------------------------------- the two generators
\* socrates_node and quiz_node behind a generator that answers each test
\* utterance with a text of its own: up to three directives, written in
\* one of three spacings, with text before, between and after them.

Notes ==
    <<[text |-> "base case", xs |-> "100", x |-> 100, ys |-> "200", y |-> 200],
      [text |-> "a]b | x: 1", xs |-> "0", x |-> 0, ys |-> "007", y |-> 7],
      [text |-> "hint", xs |-> "5", x |-> 5, ys |-> "42", y |-> 42]>>

NoteStyles == {"canonical", "compact", "spread"}

\* A directive as the generator may write it
Render(n, style) ==
    CASE style = "canonical" ->
            "[VISUAL: CREATE_NOTE | text: \"" \o n.text \o "\" | x: " \o n.xs
                \o " | y: " \o n.ys \o "]"
      [] style = "compact" ->
            "[VISUAL:CREATE_NOTE|text:\"" \o n.text \o "\"|x:" \o n.xs
                \o "|y:" \o n.ys \o "]"
      [] style = "spread" ->
            "[VISUAL:  CREATE_NOTE\n|\ttext: \n\"" \o n.text \o "\" |  x:\n" \o n.xs
                \o " \n| y:  " \o n.ys \o "]"

NoteCases ==
    [k : 0..3,
     style : NoteStyles,
     prefix : {"", "Good question! ", " \n"},
     between : {"", " and\n"},
     suffix : {"", " Keep going. "}]

\* The text generated for a case
Generated(c) ==
    c.prefix
        \o (IF c.k >= 1 THEN Render(Notes[1], c.style) ELSE "")
        \o (IF c.k >= 2 THEN c.between \o Render(Notes[2], c.style) ELSE "")
        \o (IF c.k >= 3 THEN c.between \o Render(Notes[3], c.style) ELSE "")
        \o c.suffix

\* The utterance that stands for a case
NoteCaseName(c) ==
    "case " \o SubSeq(Digits, c.k + 1, c.k + 1) \o " " \o c.style \o "/" \o c.prefix
        \o "/" \o c.between \o "/" \o c.suffix

NoteInputs(c) ==
    [TurnInputs EXCEPT !.texts = {NoteCaseName(c)},
                       !.generator = {Reply(Generated(c))}]

InitNotes ==
    \E c \in NoteCases, routing \in {"new_question", "quiz_me"} :
        LET begun == begin_turn(create_initial_state("u1", "s1", 1), NoteCaseName(c))
            st == [begun EXCEPT !.memory_summary = EmptyMemory, !.routing = routing]
        IN  /\ active_sessions = [s \in Sids |-> IF s = "c1" THEN 1 ELSE 0]
            /\ heap = (1 :> begun)
            /\ lists = (1 :> add_message(<<>>, "student", NoteCaseName(c)))
            /\ tasks = [t \in Tasks |->
                           IF t = 1
                           THEN [pc |-> routing_decision(st), sid |-> "c1", obj |-> 1,
                                 st |-> st,
                                 before |-> Snapshot(create_initial_state("u1", "s1", 1),
                                                     <<>>),
                                 stage |-> Snapshot(begun, lists[1]),
                                 trace |-> <<>>]
                           ELSE IdleTask]
            /\ memory_store = {}
            /\ started = 1
            /\ returned = NoReturn
            /\ emitted = NoEmit
            /\ NoIngest

NextNotes ==
    \/ \E c \in NoteCases : Socrates(1, NoteInputs(c))
    \/ \E c \in NoteCases : Quiz(1, NoteInputs(c))

SpecNotes == InitNotes /\ [][NextNotes]_vars

\* --------------------------------------------- two sessions of two users
\* Two connections, each with a user of its own, serve the turns of their
\* user's script while the other connection does the same. The providers
\* answer an utterance the same way whoever says it.

PairUsers == {"u1", "u2", "u3"}

Frustrated == "I don't understand recursion"

QuizMe == "quiz me"

Script ==
    [user_id \in PairUsers |->
        CASE user_id = "u1" -> <<Frustrated, QuizMe>>
          [] user_id = "u2" -> <<QuizMe, Frustrated>>
          [] user_id = "u3" -> <<Frustrated, "What is in that PDF?">>]

PairTexts == {Frustrated, QuizMe, "What is in that PDF?"}

PairInputs(text) ==
    CASE text = Frustrated ->
            [texts |-> {text}, fetch |-> {TRUE},
             router |-> {Reply(" FRUSTRATED_INTERRUPTION\n")},
             rag |-> {RagOutcome(TRUE, Found(<<Passage>>))},
             generator |-> {Reply(NoteResponse)},
             memory |-> {MemoryOutcome(Analysis({"recursion"}, {"loops"}), TRUE, TRUE)},
             graph_raises |-> {FALSE}]
      [] text = QuizMe ->
            [texts |-> {text}, fetch |-> {TRUE},
             router |-> {Reply("Quiz_Me")},
             rag |-> {RagOutcome(TRUE, NoSearch)},
             generator |-> {Reply(PlainResponse)},
             memory |-> {MemoryOutcome(Analysis({"loops"}, {}), TRUE, TRUE)},
             graph_raises |-> {FALSE}]
      [] OTHER ->
            [texts |-> {text}, fetch |-> {FALSE},
             router |-> {Failed},
             rag |-> {RagOutcome(FALSE, NoSearch)},
             generator |-> {Failed},
             memory |-> {MemoryOutcome(NoAnalysis, TRUE, TRUE)},
             graph_raises |-> BOOLEAN]

\* What earlier sessions of two of the users have left in the recall store
PairStore ==
    {OldPoint("s8", {"loops"}, {"pointers"}),
     [OldPoint("s9", {}, {"loops"}) EXCEPT !.user_id = "u2"]}

InitPair ==
    /\ active_sessions = [s \in Sids |-> 0]
    /\ heap = <<>>
    /\ lists = <<>>
    /\ tasks = [t \in Tasks |-> IdleTask]
    /\ memory_store = PairStore
    /\ started = 0
    /\ returned = NoReturn
    /\ emitted = NoEmit
    /\ NoIngest

\* init_session with a user_id no registered session has
InitPairSession(sid, user_id) ==
    /\ \A s \in Sids : active_sessions[s] # 0 => heap[active_sessions[s]].user_id # user_id
    /\ InitSessionAs(sid, user_id)

\* The next utterance of the script of the session's user, once the
\* session's previous turn has returned
PairTextEvent(sid, text_content) ==
    /\ active_sessions[sid] # 0
    /\ \A t \in Tasks : tasks[t].sid # sid
    /\ heap[active_sessions[sid]].turn_count
          < Len(Script[heap[active_sessions[sid]].user_id])
    /\ text_content = Script[heap[active_sessions[sid]].user_id]
                            [heap[active_sessions[sid]].turn_count + 1]
    /\ TextEvent(sid, text_content)

NextPair ==
    \/ \E sid \in Sids, user_id \in PairUsers : InitPairSession(sid, user_id)
    \/ \E sid \in Sids, text_content \in PairTexts : PairTextEvent(sid, text_content)
    \/ \E t \in Tasks, x \in PairTexts : LoadMemory(t, PairInputs(x))
    \/ \E t \in Tasks, x \in PairTexts : Router(t, PairInputs(x))
    \/ \E t \in Tasks, x \in PairTexts : Rag(t, PairInputs(x))
    \/ \E t \in Tasks, x \in PairTexts : Socrates(t, PairInputs(x))
    \/ \E t \in Tasks, x \in PairTexts : Quiz(t, PairInputs(x))
    \/ \E t \in Tasks, x \in PairTexts : UpdateMemory(t, PairInputs(x))
    \/ \E t \in Tasks : TtsAndReturn(t)
    \/ \E t \in Tasks, x \in PairTexts : GraphError(t, PairInputs(x))

SpecPair == InitPair /\ [][NextPair]_vars

\* The same turns with no other session on the server: the nodes in the
\* order of the graph's edges, on the session's own dict, list and store.
Only(S) == CHOOSE x \in S : TRUE

AloneReturn(out, messages, store) ==
    [state |-> out.state,
     messages |-> IF out.state.response_text # ""
                  THEN add_message(messages, "tutor", out.state.response_text)
                  ELSE messages,
     store |-> store]

AloneMemory(out, messages, store) ==
    AloneReturn(tts_node(out.state), messages,
                IF out.write.done THEN upsert_memory(store, out.write) ELSE store)

AloneGenerate(out, messages, store, inputs) ==
    AloneMemory(update_memory_node(out.state, messages, Only(inputs.memory).analysis,
                                   Only(inputs.memory).embed_ok,
                                   Only(inputs.memory).upsert_ok),
                messages, store)

AloneRoute(out, messages, store, inputs) ==
    AloneGenerate(IF routing_decision(out.state) = "quiz"
                  THEN quiz_node(out.state, Only(inputs.generator))
                  ELSE socrates_node(out.state, Only(inputs.generator)),
                  messages, store, inputs)

AloneRag(out, messages, store, inputs) ==
    AloneRoute(rag_node(out.state, Only(inputs.rag).embed_ok, Only(inputs.rag).search),
               messages, store, inputs)

AloneRouter(out, messages, store, inputs) ==
    AloneRag(router_node(out.state, Only(inputs.router)), messages, store, inputs)

AloneTurn(state, messages, store, text, inputs, raises) ==
    IF raises
    THEN [state |-> fail_turn(begin_turn(state, text)),
          messages |-> add_message(messages, "student", text),
          store |-> store]
    ELSE AloneRouter(load_memory_node(begin_turn(state, text),
                                      [ok |-> Only(inputs.fetch),
                                       records |-> get_memory(store, state.user_id)]),
                     add_message(messages, "student", text), store, inputs)

RECURSIVE Alone(_, _, _, _)
\* The session after the first n turns of its user's script, the last of
\* them failed by graph.ainvoke if raises
Alone(user_id, session_id, n, raises) ==
    IF n = 0
    THEN [state |-> create_initial_state(user_id, session_id, 0),
          messages |-> <<>>, store |-> PairStore]
    ELSE AloneTurn(Alone(user_id, session_id, n - 1, FALSE).state,
                   Alone(user_id, session_id, n - 1, FALSE).messages,
                   Alone(user_id, session_id, n - 1, FALSE).store,
                   Script[user_id][n], PairInputs(Script[user_id][n]), raises)

\* ------------------------------------------------- the classifier's reply
\* router_node behind a classifier that answers each test utterance with a
\* raw text of its own: two words, each holding some of the labels or none,
\* in upper, lower or mixed case.

LabelOrder ==
    <<"new_question", "answer_to_my_question", "frustrated_interruption",
      "request_for_visual", "quiz_me">>

\* A word the classifier may write, and the positions in LabelOrder of the
\* labels whose substring it holds
Word(text, labels) == [text |-> text, labels |-> labels]

LabelWords ==
    {Word("", {}), Word("unsure", {}), Word("question", {}), Word("frustrate", {}),
     Word("NEW_QUESTION", {1}), Word("new_question", {1}),
     Word("Answer_To_My_Question", {2}),
     Word("FRUSTRATED_INTERRUPTION", {3}), Word("frustration", {3}),
     Word("REQUEST_FOR_VISUAL", {4}), Word("a visual", {4}),
     Word("Quiz_Me", {5}), Word("quiz", {5}),
     Word("a_new_question_or_quiz", {1, 5})}

LabelCases == [first : LabelWords, second : LabelWords]

\* The raw text of generate_text for a case
RawReply(c) == " " \o c.first.text \o ", " \o c.second.text \o "\n"

\* The utterance that stands for a case
LabelCaseName(c) == "say " \o c.first.text \o "/" \o c.second.text

LabelInputs(c) ==
    [TurnInputs EXCEPT !.texts = {LabelCaseName(c)}, !.router = {Reply(RawReply(c))}]

InitLabels ==
    \E c \in LabelCases, past \in RouterPasts :
        /\ past.messages # Exchange
        /\ (past.routing = "frustrated_interruption") = (past.frustration_level > 0)
        /\ active_sessions = [s \in Sids |-> IF s = "c1" THEN 1 ELSE 0]
        /\ heap = (1 :> RouterState("c1", 1, past,
                                     [memory_summary |-> NoMemory, error |-> None],
                                     LabelCaseName(c)))
        /\ lists = (1 :> add_message(past.messages, "student", LabelCaseName(c)))
        /\ tasks = [t \in Tasks |->
                       IF t = 1
                       THEN RouterTask("c1", 1, past,
                                       [memory_summary |-> EmptyMemory, error |-> None],
                                       LabelCaseName(c))
                       ELSE IdleTask]
        /\ memory_store = {}
        /\ started = 1
        /\ returned = NoReturn
        /\ emitted = NoEmit
        /\ NoIngest

NextLabels == \E c \in LabelCases : Router(1, LabelInputs(c))

SpecLabels == InitLabels /\ [][NextLabels]_vars

\* --------------------------------------------------- the recall store
\* Two connections of one user serve the same four utterances, each
\* session one turn after the other, the two sessions in any interleaving.
\* Interval turns come twice per session, with different analyses.

StoreScript == <<Frustrated, QuizMe, Frustrated, "What is in that PDF?">>

StoreInputs(text) ==
    IF text \in {Frustrated, QuizMe}
    THEN PairInputs(text)
    ELSE [texts |-> {text}, fetch |-> {TRUE},
          router |-> {Reply("NEW_QUESTION")},
          rag |-> {RagOutcome(TRUE, Found(<<Passage>>))},
          generator |-> {Reply(PlainResponse)},
          memory |-> {MemoryOutcome(NoAnalysis, TRUE, TRUE),
                      MemoryOutcome(Analysis({"pointers"}, {"graphs"}), FALSE, TRUE),
                      MemoryOutcome(Analysis({"pointers"}, {"graphs"}), TRUE, FALSE),
                      MemoryOutcome(Analysis({"pointers"}, {"graphs"}), TRUE, TRUE)},
          graph_raises |-> BOOLEAN]

\* The next utterance of the script, once the session's previous turn has
\* returned
StoreTextEvent(sid, text_content) ==
    /\ active_sessions[sid] # 0
    /\ \A t \in Tasks : tasks[t].sid # sid
    /\ heap[active_sessions[sid]].turn_count < Len(StoreScript)
    /\ text_content = StoreScript[heap[active_sessions[sid]].turn_count + 1]
    /\ TextEvent(sid, text_content)

NextStore ==
    \/ \E sid \in Sids : InitSessionAs(sid, "u1")
    \/ \E sid \in Sids, text_content \in PairTexts : StoreTextEvent(sid, text_content)
    \/ \E t \in Tasks, x \in PairTexts : LoadMemory(t, StoreInputs(x))
    \/ \E t \in Tasks, x \in PairTexts : Router(t, StoreInputs(x))
    \/ \E t \in Tasks, x \in PairTexts : Rag(t, StoreInputs(x))
    \/ \E t \in Tasks, x \in PairTexts : Socrates(t, StoreInputs(x))
    \/ \E t \in Tasks, x \in PairTexts : Quiz(t, StoreInputs(x))
    \/ \E t \in Tasks, x \in PairTexts : UpdateMemory(t, StoreInputs(x))
    \/ \E t \in Tasks : TtsAndReturn(t)
    \/ \E t \in Tasks, x \in PairTexts : GraphError(t, StoreInputs(x))

SpecStore == InitPair /\ [][NextStore]_vars

\* ------------------------------------------------ what the search returns
\* rag_node as in SpecRag, behind a search whose passages depend on the
\* utterance, after an earlier turn that retrieved Passage.

NewPassage == [text |-> "A loop repeats a block.", score |-> 70]

ResultsFor(text) ==
    CASE Len(text) % 3 = 0 -> <<>>
      [] Len(text) % 3 = 1 -> <<NewPassage>>
      [] Len(text) % 3 = 2 -> <<NewPassage, Passage>>

RetrievalInputs(text) ==
    [TurnInputs EXCEPT
        !.texts = {text},
        !.rag = {RagOutcome(FALSE, NoSearch), RagOutcome(TRUE, NoSearch),
                 RagOutcome(TRUE, Found(ResultsFor(text)))}]

NextRetrieval == \E x \in RagTexts : Rag(1, RetrievalInputs(x))

SpecRetrieval == InitRag /\ [][NextRetrieval]_vars

\* ------------------------------------------------------------- properties

\* ------------------------------------------- a user with many sessions

\* the most records of the user's other sessions in the recall store
MaxOtherRecords == 5

OtherTopics == <<"loops", "pointers", "arrays">>

\* the record an earlier session of the user left in the recall store
OtherRecord(i) ==
    OldPoint("o" \o ToString(i), {OtherTopics[(i % Len(OtherTopics)) + 1]}, {})

RecallStores == {{OtherRecord(i) : i \in 1..k} : k \in 0..MaxOtherRecords}

InitRecall ==
    /\ active_sessions = [s \in Sids |-> 0]
    /\ heap = <<>>
    /\ lists = <<>>
    /\ tasks = [t \in Tasks |-> IdleTask]
    /\ memory_store \in RecallStores
    /\ started = 0
    /\ returned = NoReturn
    /\ emitted = NoEmit
    /\ NoIngest

\* turns of one session, one after the other, every provider succeeding
NextRecall ==
    \/ InitSession("c1")
    \/ /\ active_sessions["c1"] # 0
       /\ started < MaxPriorTurns
       /\ TextEvent("c1", PriorText)
    \/ LoadMemory(1, PriorInputs)
    \/ Router(1, PriorInputs)
    \/ Rag(1, PriorInputs)
    \/ Socrates(1, PriorInputs)
    \/ UpdateMemory(1, PriorInputs)
    \/ TtsAndReturn(1)

SpecRecall == InitRecall /\ [][NextRecall]_vars

\* ------------------------------------------- events without a session

NoSessionError == Emit("error", "message", "No active session. Send init_session first.")

UserIdRequired == Emit("error", "message", "user_id required")

\* an init_session without user_id that registers a session all the same
InitSessionAnonymous(sid) == InitSessionAs(sid, "")

\* ws.py:101-109: init_session whose data carries no user_id
InitSessionWithoutUser(sid) ==
    /\ UNCHANGED ingest_vars
    /\ emitted' = Sent(sid, <<UserIdRequired>>)
    /\ returned' = NoReturn
    /\ UNCHANGED <<active_sessions, heap, lists, tasks, memory_store, started>>

\* ws.py:232-238 and 158-164: a 'text' or an 'audio' event on a connection
\* without a session; the two handlers answer alike
EventWithoutSession(sid) ==
    /\ active_sessions[sid] = 0
    /\ UNCHANGED ingest_vars
    /\ emitted' = Sent(sid, <<NoSessionError>>)
    /\ returned' = NoReturn
    /\ UNCHANGED <<active_sessions, heap, lists, tasks, memory_store, started>>

\* two connections sending their events in any order, one turn at a time
NextConnect ==
    \/ \E sid \in Sids : InitSession(sid)
    \/ \E sid \in Sids : InitSessionWithoutUser(sid)
    \/ \E sid \in Sids : EventWithoutSession(sid)
    \/ \E sid \in Sids, audio_data_b64 \in AudioData :
        ~InFlight(1) /\ AudioEvent(sid, audio_data_b64)
    \/ Transcribe(1)
    \/ \E sid \in Sids, text_content \in LiveInputs.texts :
        /\ started < MaxTurns
        /\ ~InFlight(1)
        /\ TextEvent(sid, text_content)
    \/ \E t \in {1} : TurnStep(t, LiveInputs)

SpecConnect == Init /\ [][NextConnect]_vars

\* ------------------------------------------------------- upload jobs

\* uploads accepted in a run
MaxJobs == 2

\* the most chunks chunk_text returns for an uploaded document
MaxChunks == 2

JobIds == 1..MaxJobs

\* a callback that never lets the recorded progress go down
status_callback_rising(status, job_id, progress) ==
    [status EXCEPT ![job_id] =
        [@ EXCEPT !.progress = IF progress > @ THEN progress ELSE @]]

\* materials.py:134-140: the status_callback handed to process_document
status_callback(status, job_id, progress) ==
    [status EXCEPT ![job_id] = [@ EXCEPT !.progress = progress]]

\* chunk_ingest.py:44-52: update_status
Report(job_id, progresses) ==
    [jobs EXCEPT ![job_id] = [@ EXCEPT !.reported = @ \o progresses]]

\* materials.py:46-112: upload_materials accepts a file and starts the job
UploadMaterials(job_id) ==
    /\ job_id \notin DOMAIN upload_status
    /\ \A j \in JobIds : j < job_id => j \in DOMAIN upload_status
    /\ upload_status' = (job_id :> [status |-> "processing", progress |-> 0]) @@ upload_status
    /\ jobs' = (job_id :> [pc |-> "created", chunks |-> 0, reported |-> <<>>]) @@ jobs
    /\ UNCHANGED <<tutor_vars, chunker>>

\* chunk_ingest.py:54-58: the task runs up to the await of parse_with_docling
StartProcessing(job_id) ==
    /\ job_id \in DOMAIN jobs
    /\ jobs[job_id].pc = "created"
    /\ upload_status' = status_callback(upload_status, job_id, 10)
    /\ jobs' = [Report(job_id, <<10>>) EXCEPT ![job_id].pc = "parsing"]
    /\ UNCHANGED <<tutor_vars, chunker>>

\* chunk_ingest.py:128-147 and materials.py:149-159: an await of
\* process_document raised; it reports progress 0 and raises, and the
\* background task records the failure
JobFails(job_id) ==
    /\ upload_status' =
           [status_callback(upload_status, job_id, 0) EXCEPT ![job_id].status = "failed"]
    /\ jobs' = [Report(job_id, <<0>>) EXCEPT ![job_id].pc = "done"]
    /\ UNCHANGED <<tutor_vars, chunker>>

\* chunk_ingest.py:58-73 (and 76-112 for a document without chunks):
\* parse_with_docling returns or raises; chunk_text returns n chunks
Parsed(job_id, ok, n) ==
    /\ job_id \in DOMAIN jobs
    /\ jobs[job_id].pc = "parsing"
    /\ IF ~ok
       THEN JobFails(job_id)
       ELSE /\ upload_status' = status_callback(upload_status, job_id, IF n = 0 THEN 80 ELSE 60)
            /\ jobs' = [Report(job_id, IF n = 0 THEN <<40, 60, 80>> ELSE <<40, 60>>)
                           EXCEPT ![job_id].pc = IF n = 0 THEN "storing" ELSE "embedding",
                                  ![job_id].chunks = n]
            /\ UNCHANGED <<tutor_vars, chunker>>

\* chunk_ingest.py:79-112: gemini_service.embed_text of one chunk returns or
\* raises
ChunkEmbedded(job_id, ok) ==
    /\ job_id \in DOMAIN jobs
    /\ jobs[job_id].pc = "embedding"
    /\ IF ~ok
       THEN JobFails(job_id)
       ELSE IF jobs[job_id].chunks > 1
       THEN /\ jobs' = [jobs EXCEPT ![job_id].chunks = @ - 1]
            /\ UNCHANGED <<upload_status, tutor_vars, chunker>>
       ELSE /\ upload_status' = status_callback(upload_status, job_id, 80)
            /\ jobs' = [Report(job_id, <<80>>) EXCEPT ![job_id].pc = "storing",
                                                      ![job_id].chunks = 0]
            /\ UNCHANGED <<tutor_vars, chunker>>

\* chunk_ingest.py:114-126 and materials.py:143-145: upsert_notes returns or
\* raises; on return process_document reports 100 and the job is completed
Stored(job_id, ok) ==
    /\ job_id \in DOMAIN jobs
    /\ jobs[job_id].pc = "storing"
    /\ IF ~ok
       THEN JobFails(job_id)
       ELSE /\ upload_status' =
                   [status_callback(upload_status, job_id, 100)
                       EXCEPT ![job_id].status = "completed", ![job_id].progress = 100]
            /\ jobs' = [Report(job_id, <<100>>) EXCEPT ![job_id].pc = "done"]
            /\ UNCHANGED <<tutor_vars, chunker>>

NextUpload ==
    \/ \E job_id \in JobIds : UploadMaterials(job_id)
    \/ \E job_id \in JobIds : StartProcessing(job_id)
    \/ \E job_id \in JobIds, ok \in BOOLEAN, n \in 0..MaxChunks : Parsed(job_id, ok, n)
    \/ \E job_id \in JobIds, ok \in BOOLEAN : ChunkEmbedded(job_id, ok)
    \/ \E job_id \in JobIds, ok \in BOOLEAN : Stored(job_id, ok)

SpecUpload == Init /\ [][NextUpload]_vars

\* ------------------------------------------- what a turn sends back

TwoNotes ==
    "Look: " \o Render(Notes[1], "canonical") \o " then " \o Render(Notes[3], "compact")

EmitInputs == [LiveInputs EXCEPT !.generator = {Failed, Reply(TwoNotes)}]

NextEmit ==
    \/ InitSession("c1")
    \/ Disconnect("c1")
    \/ \E text_content \in EmitInputs.texts :
        /\ started < MaxTurns
        /\ ~InFlight(1)
        /\ TextEvent("c1", text_content)
    \/ \E t \in {1} : TurnStep(t, EmitInputs)

\* Every await of a turn returns or raises, and the event loop resumes the
\* handler: a turn does not stay in flight without taking a step again.
\* This is WF_vars(TurnStep(1, EmitInputs)) with the enabling condition of
\* the turn's steps, which is that the turn is in flight, written out.
Resumed == []<>(~InFlight(1)) \/ []<><<TurnStep(1, EmitInputs)>>_vars

SpecEmit == Init /\ [][NextEmit]_vars /\ Resumed

\* ------------------------------------------------------- chunk_text

\* chunk_ingest.py:310: the defaults, which process_document passes (line 68)
chunk_size == 512

overlap == 50

\* the longest text handed to chunk_text
MaxTextLen == 1500

\* A text is its length and the positions (from 0) of its '.' and '\n' and
\* of its other whitespace; every other position holds a letter.  chunk_text
\* looks at nothing else.
Lengths ==
    {n \in {0, 1, 50, 258, 462, 511, 512, 513, 562, 974, 1024, 1100} : n <= MaxTextLen}
        \cup {MaxTextLen}

PeriodMarks == {256, 257, 511, 700}

NewlineMarks == {300, 512, 900}

Texts ==
    UNION {UNION {{[len |-> n, periods |-> ps, newlines |-> ns, spaces |-> {}],
                   [len |-> n, periods |-> ps, newlines |-> ns,
                    spaces |-> (0..(n - 1)) \ (ps \cup ns)]} :
                     ps \in SUBSET {p \in PeriodMarks : p < n},
                     ns \in SUBSET {q \in NewlineMarks : q < n}} :
           n \in Lengths}

\* str.rfind of a character in text[start:end]: the index within the slice
rfind(marks, start, end) ==
    IF {p \in marks : start <= p /\ p < end} = {}
    THEN -1
    ELSE CHOOSE p \in {q - start : q \in {r \in marks : start <= r /\ r < end}} :
             \A q \in marks : (start <= q /\ q < end) => q - start <= p

\* chunk_ingest.py:331: not text or text.strip() == ""
nothing_to_chunk(text) ==
    \/ text.len = 0
    \/ (text.periods = {} /\ text.spaces \cup text.newlines = 0..(text.len - 1))

\* chunk_ingest.py:339-351: where the chunk that begins at start ends
chunk_end(text, start) ==
    LET last_period == rfind(text.periods, start, start + chunk_size)
        last_newline == rfind(text.newlines, start, start + chunk_size)
        break_point == IF last_period > last_newline THEN last_period ELSE last_newline
    IN  IF start + chunk_size < text.len /\ break_point > chunk_size \div 2
        THEN start + break_point + 1
        ELSE start + chunk_size

\* a step back by a whole chunk
next_start_back(end) == end - chunk_size

\* chunk_ingest.py:355
next_start(end) == end - overlap

\* chunk_ingest.py:331-336
ChunkCall ==
    /\ chunker.pc = "called"
    /\ chunker' = [chunker EXCEPT
                      !.pc = IF nothing_to_chunk(chunker.text) THEN "returned" ELSE "loop"]
    /\ UNCHANGED <<tutor_vars, upload_status, jobs>>

\* chunk_ingest.py:338-355: one iteration; a chunk is recorded by the range
\* of the text it was cut from, before strip()
ChunkLoop ==
    /\ chunker.pc = "loop"
    /\ chunker.start < chunker.text.len
    /\ LET end == chunk_end(chunker.text, chunker.start) IN
        chunker' = [chunker EXCEPT
                       !.chunks = Append(@, [from |-> chunker.start,
                                             to |-> IF end < chunker.text.len
                                                    THEN end ELSE chunker.text.len]),
                       !.start = next_start(end)]
    /\ UNCHANGED <<tutor_vars, upload_status, jobs>>

\* chunk_ingest.py:338, 362: the loop ends and the chunks are returned
ChunkReturn ==
    /\ chunker.pc = "loop"
    /\ chunker.start >= chunker.text.len
    /\ chunker' = [chunker EXCEPT !.pc = "returned"]
    /\ UNCHANGED <<tutor_vars, upload_status, jobs>>

InitChunk ==
    /\ active_sessions = [s \in Sids |-> 0]
    /\ heap = <<>>
    /\ lists = <<>>
    /\ tasks = [t \in Tasks |-> IdleTask]
    /\ memory_store = {}
    /\ started = 0
    /\ returned = NoReturn
    /\ emitted = NoEmit
    /\ upload_status = <<>>
    /\ jobs = <<>>
    /\ chunker \in {[pc |-> "called", text |-> x, start |-> 0, chunks |-> <<>>] : x \in Texts}

NextChunk == ChunkCall \/ ChunkLoop \/ ChunkReturn

\* chunk_text is straight-line code: it runs on until it returns
SpecChunk == InitChunk /\ [][NextChunk]_vars /\ WF_vars(NextChunk)

Has(trace, event) == \E i \in 1..Len(trace) : trace[i] = event

Called(trace, name) ==
    \E i \in 1..Len(trace) : trace[i].kind = "call" /\ trace[i].name = name

IsNode(event) == event.kind = "node"

\* the nodes that ran, in order
NodesOf(trace) ==
    [i \in 1..Len(SelectSeq(trace, IsNode)) |-> SelectSeq(trace, IsNode)[i].name]

Turning == {t \in Tasks : InFlight(t)}

\* C1: every return of process_user_input carries the turn_count the session
\* had when the call was made, plus exactly 1, on the path through the
\* top-level exception handler too.
C1_TurnCountPlusOne ==
    returned.valid => returned.state.turn_count = returned.before.turn_count + 1

\* The return that breaks it: the top-level handler returns the dict it was
\* given, which a second turn of the same session has incremented meanwhile.
C1_EscapeAfterOverlap ==
    /\ returned.valid
    /\ returned.escaped
    /\ returned.state.turn_count = returned.before.turn_count + 2

\* C2: at most one turn is in flight per connection at any time.
C2_OneTurnPerSession ==
    \A t \in Turning, u \in Turning : tasks[t].sid = tasks[u].sid => t = u

\* Two turns of one connection suspended in the graph, both started on the
\* same dict.
C2_TwoTurnsOnOneState ==
    \E t \in Turning, u \in Turning :
        /\ t # u
        /\ tasks[t].sid = tasks[u].sid
        /\ tasks[t].obj = tasks[u].obj
        /\ tasks[t].pc = "router"
        /\ tasks[u].pc = "load_memory"

Disjoint(memory) == memory.mastered \cap memory.confused = {}

\* C3: after load_memory_node and after update_memory_node has run, and in
\* every stored session state, no topic is both mastered and confused.
C3_MasteredConfusedDisjoint ==
    /\ \A t \in Turning :
        tasks[t].pc # "load_memory" => Disjoint(tasks[t].st.memory_summary)
    /\ \A o \in DOMAIN heap : Disjoint(heap[o].memory_summary)

\* An update has merged an analysis naming a topic on both sides into a
\* summary loaded from records that disagree about a topic.
C3_ConflictingRecordsMerged ==
    \E t \in Turning :
        /\ tasks[t].pc = "tts"
        /\ Called(tasks[t].trace, "upsert_memory")
        /\ {"loops", "recursion"} \subseteq tasks[t].st.memory_summary.mastered
        /\ \E p \in memory_store, q \in memory_store :
            p.memory_data.mastered \cap q.memory_data.confused # {}

FullTurns ==
    {<<"load_memory", "router", "rag", "socrates", "update_memory", "tts">>,
     <<"load_memory", "router", "rag", "quiz", "update_memory", "tts">>}

\* C4: no node lets the failure of its provider call leave the node, so a
\* turn that the graph itself does not abort runs every stage once, in
\* order, whatever failed; after a failed retrieval rag_context is empty.
C4_FailuresStayInStage ==
    /\ \A t \in Turning :
        \A i \in 1..Len(tasks[t].trace) : tasks[t].trace[i].kind # "raise"
    /\ returned.valid =>
        /\ \A i \in 1..Len(returned.trace) :
            returned.trace[i].kind = "raise" => returned.trace[i].name = "graph"
        /\ ~returned.escaped => NodesOf(returned.trace) \in FullTurns
        /\ (/\ ~returned.escaped
            /\ \/ Has(returned.trace, Fail("embed_query"))
               \/ Has(returned.trace, Fail("search_notes")))
            => returned.state.rag_context = <<>>

\* A turn in which the fetch, the query embedding, the analysis and the
\* synthesis all failed has returned after the Socratic generator ran.
C4_TurnSurvivedFourFailures ==
    /\ returned.valid
    /\ ~returned.escaped
    /\ Has(returned.trace, Fail("get_memory"))
    /\ Has(returned.trace, Fail("embed_query"))
    /\ Has(returned.trace, Fail("generate_json"))
    /\ Has(returned.trace, Fail("get_global_tts"))
    /\ Has(returned.trace, Ev("node", "socrates", ""))
    /\ returned.state.rag_context = <<>>

\* C5 as stated: update_memory_node calls upsert_memory if and only if
\* turn_count is a multiple of memory_update_interval.
C5_WriteIffIntervalTurn ==
    \A t \in Turning :
        tasks[t].pc = "tts" =>
            (Called(tasks[t].trace, "upsert_memory")
                <=> tasks[t].st.turn_count % memory_update_interval = 0)

\* C5 amended: update_memory_node calls upsert_memory only at a multiple of
\* memory_update_interval, and at such a turn exactly when the analysis and
\* the embedding of the summary both succeeded.
C5_WriteIffIntervalAndAnalysed ==
    \A t \in Turning :
        tasks[t].pc = "tts" =>
            (Called(tasks[t].trace, "upsert_memory")
                <=> /\ tasks[t].st.turn_count % memory_update_interval = 0
                    /\ ~Has(tasks[t].trace, Fail("generate_json"))
                    /\ ~Has(tasks[t].trace, Fail("embed_text")))

\* Both sides occur: a turn that wrote, and an interval turn that did not.
C5_IntervalTurnWrote ==
    \E t \in Turning :
        /\ tasks[t].pc = "tts"
        /\ tasks[t].st.last_user_text # PriorText
        /\ tasks[t].st.turn_count % memory_update_interval = 0
        /\ Called(tasks[t].trace, "upsert_memory")
        /\ \E p \in memory_store :
            /\ p.session_id = tasks[t].st.session_id
            /\ p.memory_data = tasks[t].st.memory_summary

\* C6: when the analysis or the store write fails at an interval turn,
\* memory_summary after update_memory_node is what it was before the stage,
\* and error is set.
C6_FailedUpdateKeepsMemory ==
    \A t \in Turning :
        (/\ tasks[t].pc = "tts"
         /\ \/ Has(tasks[t].trace, Fail("generate_json"))
            \/ Has(tasks[t].trace, Fail("embed_text"))
            \/ Has(tasks[t].trace, Fail("upsert_memory")))
        => /\ tasks[t].st.memory_summary = tasks[t].stage.memory_summary
           /\ tasks[t].st.error # None

\* The store write failed and the state keeps the merged summary, which no
\* record of the store holds.
C6_UnsavedSummaryKept ==
    \E t \in Turning :
        /\ tasks[t].pc = "tts"
        /\ Has(tasks[t].trace, Fail("upsert_memory"))
        /\ tasks[t].st.memory_summary # tasks[t].stage.memory_summary
        /\ \A p \in memory_store : p.memory_data # tasks[t].st.memory_summary

\* C7: when an exception escapes the stages, process_user_input returns a
\* state with error set, the fixed fallback text and should_tts false.
C7_EscapeReturnsFallback ==
    (returned.valid /\ returned.escaped) =>
        /\ returned.state.error # None
        /\ returned.state.response_text = ProcessingFallback
        /\ returned.state.should_tts = FALSE

\* The exception came after a generator had produced a response.
C7_EscapedAfterGenerator ==
    /\ returned.valid
    /\ returned.escaped
    /\ \/ Has(returned.trace, Ev("node", "socrates", ""))
       \/ Has(returned.trace, Ev("node", "quiz", ""))
    /\ returned.before.turn_count > 0

GatedRoutings == {"answer_to_my_question", "frustrated_interruption", "request_for_visual"}

Registered(sid) == active_sessions[sid] # 0

\* C9: the frustration_level of a registered session is in 0..5, no step
\* lowers it, and a frustrated classification at level 5 leaves it at 5.
C9_FrustrationBoundedMonotone ==
    [][/\ \A sid \in Sids :
            /\ Registered(sid) => heap[active_sessions[sid]].frustration_level \in 0..5
            /\ (Registered(sid) /\ active_sessions'[sid] # 0)
                => heap'[active_sessions'[sid]].frustration_level
                       >= heap[active_sessions[sid]].frustration_level
       /\ \A t \in Tasks :
            (/\ tasks[t].pc = "router"
             /\ tasks'[t].pc = "rag"
             /\ tasks[t].st.frustration_level = 5
             /\ tasks'[t].st.routing = "frustrated_interruption")
            => tasks'[t].st.frustration_level = 5]_vars

Punctuation == {"?", ".", "!", ",", ";", ":", "\"", "'", "(", ")", "-"}

RECURSIVE without(_, _)
without(s, chars) ==
    IF s = "" THEN ""
    ELSE (IF Head(s) \in chars THEN "" ELSE Head(s)) \o without(Tail(s), chars)

RECURSIVE trim(_, _)
trim(s, chars) ==
    IF s # "" /\ Head(s) \in chars THEN trim(Tail(s), chars)
    ELSE IF s # "" /\ Char(s, Len(s)) \in chars THEN trim(SubSeq(s, 1, Len(s) - 1), chars)
    ELSE s

PdfPhrase == "what is in that pdf"

\* the phrase, in any letter case and with any punctuation
SaysPdfPhrase(text) == trim(without(lower(text), Punctuation), Whitespace) = PdfPhrase

\* the phrase, in any letter case, with "?" and "." anywhere and other
\* punctuation only around it
SaysPdfPhraseStops(text) ==
    trim(without(lower(text), {"?", "."}), Punctuation \cup Whitespace) = PdfPhrase

Embedded(t, query) == Has(tasks[t].trace, Ev("call", "embed_query", query))

\* C10 as stated: for routing new_question or quiz_me and the phrase
\* "what is in that pdf" in any case and with any punctuation, the query
\* embedding receives the canonical broad query and not the utterance.
C10_AnyPunctuationRewritten ==
    \A t \in Turning :
        (/\ tasks[t].pc # "rag"
         /\ tasks[t].st.routing \in {"new_question", "quiz_me"}
         /\ SaysPdfPhrase(tasks[t].st.last_user_text))
        => /\ Embedded(t, BroadQuery)
           /\ ~Embedded(t, tasks[t].st.last_user_text)

\* C10 amended: the same for the phrase in any case, with "?" and "."
\* anywhere in it and any other punctuation only before or after it.
C10_StopsAndCaseRewritten ==
    \A t \in Turning :
        (/\ tasks[t].pc # "rag"
         /\ tasks[t].st.routing \in {"new_question", "quiz_me"}
         /\ SaysPdfPhraseStops(tasks[t].st.last_user_text))
        => /\ Embedded(t, BroadQuery)
           /\ ~Embedded(t, tasks[t].st.last_user_text)

\* An utterance in mixed case, closed by "?!", was replaced by the broad
\* query, and the passage found for that query is the turn's context.
C10_MarkedPhraseRewritten ==
    \E t \in Turning :
        /\ tasks[t].pc = "quiz"
        /\ tasks[t].st.last_user_text = "What is in that pdf?!"
        /\ Embedded(t, BroadQuery)
        /\ tasks[t].st.rag_context = <<Passage>>

CallCount(trace, name) ==
    Cardinality({i \in 1..Len(trace) : trace[i].kind = "call" /\ trace[i].name = name})

C12_SynthesisStoresAudio ==
    (returned.valid /\ ~returned.escaped) =>
        IF returned.state.should_tts /\ ~blank(returned.state.response_text)
        THEN /\ returned.state.audio_data # None
             /\ returned.state.error # "TTS error"
             /\ ~Has(returned.trace, Fail("get_global_tts"))
        ELSE /\ returned.state.audio_data = None
             /\ returned.state.error # "TTS error"
             /\ ~Has(returned.trace, Fail("get_global_tts"))

\* A visible response was to be spoken and the stage ended in its handler
\* before any provider was reached: no audio, error set.
C12_SynthesisNeverReached ==
    /\ returned.valid
    /\ ~returned.escaped
    /\ returned.state.should_tts
    /\ returned.state.response_text = PlainResponse
    /\ returned.state.audio_data = None
    /\ returned.state.error = "TTS error"
    /\ Has(returned.trace, Fail("get_global_tts"))

\* C13: the handler of an 'audio' event that carries data, once the
\* transcription is over, starts exactly one process_user_input, on the
\* session of its connection.
C13_AudioStartsOneTurn ==
    [][\A t \in Tasks :
          (tasks[t].pc = "transcribe" /\ tasks'[t].pc # "transcribe") =>
              /\ tasks'[t].pc = "load_memory"
              /\ tasks'[t].sid = tasks[t].sid
              /\ started' = started + 1]_vars

\* An 'audio' event is waiting for its transcription, no turn started yet.
C13_AudioAwaitsTranscription ==
    \E t \in Tasks :
        /\ tasks[t].pc = "transcribe"
        /\ tasks[t].obj = active_sessions[tasks[t].sid]
        /\ started = 0

Last(seq) == seq[Len(seq)]

\* C14: after every process_user_input call that returns a non-empty
\* response_text, the last of the returned messages is a tutor message
\* whose content is that response_text.
C14_TutorMessageLast ==
    (returned.valid /\ returned.state.response_text # "") =>
        /\ returned.messages # <<>>
        /\ Last(returned.messages) =
               [role |-> "tutor", content |-> returned.state.response_text]

\* The top-level handler returned its fallback text, and the history ends
\* with the student's message.
C14_FallbackNotRecorded ==
    /\ returned.valid
    /\ returned.escaped
    /\ returned.state.response_text = ProcessingFallback
    /\ Last(returned.messages) =
           [role |-> "student", content |-> returned.state.last_user_text]
    /\ \A i \in 1..Len(returned.messages) :
           returned.messages[i].content # ProcessingFallback

\* C15: the response_text, visual_actions, should_tts and audio_data that
\* process_user_input returns were written during that call: either the
\* generator and the synthesis stage of this turn ran, or the top-level
\* handler returns its own fallback with no visual action and no audio.
C15_OutputsOfThisTurn ==
    returned.valid =>
        IF returned.escaped
        THEN /\ returned.state.response_text = ProcessingFallback
             /\ returned.state.should_tts = FALSE
             /\ returned.state.visual_actions = <<>>
             /\ returned.state.audio_data = None
        ELSE /\ \/ Has(returned.trace, Ev("node", "socrates", ""))
                \/ Has(returned.trace, Ev("node", "quiz", ""))
             /\ Has(returned.trace, Ev("node", "tts", ""))

\* A turn that failed before its generator ran returns the note of the
\* turn before it.
C15_StaleNoteReturned ==
    /\ returned.valid
    /\ returned.escaped
    /\ returned.before.turn_count > 0
    /\ ~Has(returned.trace, Ev("node", "socrates", ""))
    /\ ~Has(returned.trace, Ev("node", "quiz", ""))
    /\ returned.state.response_text = ProcessingFallback
    /\ Len(returned.state.visual_actions) = 1
    /\ returned.state.visual_actions[1].payload.text = "base case"

\* C16: a connection id that has no entry in active_sessions gets one only
\* by init_session, which registers a state fresh from
\* create_initial_state; a turn that was in flight at disconnect time and
\* completes afterwards does not bring the entry back.
C16_OnlyInitSessionRegisters ==
    [][\A sid \in Sids :
          (active_sessions[sid] = 0 /\ active_sessions'[sid] # 0) =>
              \E user_id \in Users :
                  /\ heap'[active_sessions'[sid]] =
                         create_initial_state(user_id, SessionIdOf(sid),
                                              heap'[active_sessions'[sid]].messages)
                  /\ lists'[heap'[active_sessions'[sid]].messages] = <<>>]_vars

\* The connection is gone and a turn started on it is still in the graph.
C16_TurnOutlivesConnection ==
    \E t \in Turning :
        /\ tasks[t].pc = "tts"
        /\ active_sessions[tasks[t].sid] = 0

Routed == {t \in Tasks : tasks[t].pc = "rag"}

SameInput(t, u) ==
    /\ tasks[t].st.last_user_text = tasks[u].st.last_user_text
    /\ lists[tasks[t].st.messages] = lists[tasks[u].st.messages]
    /\ \E stub \in StubIds :
        /\ Has(tasks[t].trace, Ev("stub", stub, ""))
        /\ Has(tasks[u].trace, Ev("stub", stub, ""))

\* C18: behind one deterministic classifier, two runs of the router stage
\* on states with the same last_user_text and the same messages give the
\* same routing label, whatever frustration_level, previous routing,
\* memory_summary and error the two states hold.
C18_SameInputSameLabel ==
    \A t \in Routed, u \in Routed :
        SameInput(t, u) => tasks[t].st.routing = tasks[u].st.routing

\* Two runs agree on the label although they started from different
\* levels, previous labels, memories and errors.
C18_LabelAgreesAcrossStates ==
    /\ Routed = {1, 2}
    /\ SameInput(1, 2)
    /\ Len(lists[1]) = 5
    /\ tasks[1].stage.frustration_level # tasks[2].stage.frustration_level
    /\ tasks[1].stage.memory_summary # tasks[2].stage.memory_summary
    /\ heap[1].routing # heap[2].routing
    /\ tasks[1].st.error # tasks[2].st.error
    /\ tasks[1].st.routing = "answer_to_my_question"
    /\ tasks[2].st.routing = "answer_to_my_question"

CaseOf(text) == CHOOSE c \in NoteCases : NoteCaseName(c) = text

\* What the claim expects of a case: the text around the directives,
\* trimmed, and one action per directive, in order.
ExpectedText(c) ==
    strip(c.prefix \o (IF c.k >= 2 THEN c.between ELSE "")
              \o (IF c.k >= 3 THEN c.between ELSE "") \o c.suffix)

ExpectedActions(c) ==
    [i \in 1..c.k |->
        [action |-> "CREATE_NOTE",
         payload |-> [text |-> Notes[i].text, x |-> Notes[i].x, y |-> Notes[i].y]]]

\* C19: for generated text with k directives, each generator produces
\* exactly k visual actions, in the order of the directives and with their
\* text, x and y; response_text holds none of the directives and keeps the
\* text around them, trimmed at both ends only.
C19_DirectivesBecomeActions ==
    \A t \in Tasks :
        tasks[t].pc = "update_memory" =>
            LET c == CaseOf(tasks[t].st.last_user_text) IN
            /\ tasks[t].st.visual_actions = ExpectedActions(c)
            /\ tasks[t].st.response_text = ExpectedText(c)
            /\ \A i \in 1..c.k :
                ~contains(Render(Notes[i], c.style), tasks[t].st.response_text)

\* The quiz generator has turned three directives, written over several
\* lines, into three actions and kept the text between them.
C19_ThreeNotesFromQuiz ==
    \E t \in Tasks :
        /\ tasks[t].pc = "update_memory"
        /\ Has(tasks[t].trace, Ev("node", "quiz", ""))
        /\ CaseOf(tasks[t].st.last_user_text).style = "spread"
        /\ Len(tasks[t].st.visual_actions) = 3
        /\ tasks[t].st.visual_actions[2].payload = [text |-> "a]b | x: 1", x |-> 0, y |-> 7]
        /\ tasks[t].st.response_text = "Good question!  and\n and\n Keep going."

\* The dict without the reference to its list
Fields(state) == [state EXCEPT !.messages = 0]

SessionAlone(state) ==
    Alone(state.user_id, state.session_id, state.turn_count,
          state.error = "Processing error")

\* C20: whatever the interleaving with the turns of a session of another
\* user on another connection, a session whose turn has returned holds the
\* state and the messages that its turns alone, with the same provider
\* responses, leave.
C20_SessionAsIfAlone ==
    \A sid \in Sids :
        (active_sessions[sid] # 0 /\ \A t \in Tasks : tasks[t].sid # sid) =>
            /\ Fields(heap[active_sessions[sid]])
                  = Fields(SessionAlone(heap[active_sessions[sid]]).state)
            /\ lists[heap[active_sessions[sid]].messages]
                  = SessionAlone(heap[active_sessions[sid]]).messages

\* The second turn of c1 has just returned while the second turn of c2,
\* for another user, is in the graph, after c2's user's first turn.
C20_ReturnedBesideATurnInFlight ==
    /\ returned.valid
    /\ returned.sid = "c1"
    /\ returned.state.turn_count = 2
    /\ \A t \in Tasks : tasks[t].sid # "c1"
    /\ \E t \in Tasks :
        /\ tasks[t].sid = "c2"
        /\ tasks[t].pc = "update_memory"
        /\ tasks[t].st.turn_count = 2
        /\ tasks[t].st.user_id # returned.state.user_id

StageOrder(generator) ==
    <<"load_memory", "router", "rag", generator, "update_memory", "tts">>

StageOrders == {StageOrder("socrates"), StageOrder("quiz")}

\* The node that was running when the i-th event of the trace was recorded
RunningAt(trace, i) ==
    trace[CHOOSE j \in 1..i :
              /\ trace[j].kind = "node"
              /\ \A k \in (j + 1)..i : trace[k].kind # "node"].name

\* The provider calls of each stage
CallsOf(node) ==
    CASE node = "load_memory" -> {"get_memory"}
      [] node = "router" -> {"generate_text"}
      [] node = "rag" -> {"embed_query", "search_notes"}
      [] node \in {"socrates", "quiz"} -> {"generate_text"}
      [] node = "update_memory" -> {"generate_json", "embed_text", "upsert_memory"}
      [] node = "tts" -> {"get_global_tts"}

\* C21: a turn that returns without the top-level handler has run
\* load_memory, router, rag, one generator, update_memory and tts, in this
\* order and once each; a turn in flight has run a prefix of that order and
\* waits at the next stage; every provider call was made by the stage that
\* had started last, so no stage started while another was still running.
C21_StagesInOrder ==
    /\ (returned.valid /\ ~returned.escaped) => NodesOf(returned.trace) \in StageOrders
    /\ \A t \in Tasks :
        InFlight(t) =>
            \E order \in StageOrders :
                \E n \in 0..5 :
                    /\ NodesOf(tasks[t].trace) = SubSeq(order, 1, n)
                    /\ tasks[t].pc = order[n + 1]
    /\ \A t \in Tasks :
        \A i \in 1..Len(tasks[t].trace) :
            tasks[t].trace[i].kind \in {"call", "fail"} =>
                tasks[t].trace[i].name \in CallsOf(RunningAt(tasks[t].trace, i))
    /\ returned.valid =>
        \A i \in 1..Len(returned.trace) :
            returned.trace[i].kind \in {"call", "fail"} =>
                returned.trace[i].name \in CallsOf(RunningAt(returned.trace, i))

\* A turn has run the six stages, the quiz among them, although the
\* embedding of its retrieval stage failed.
C21_SixStagesDespiteFailure ==
    /\ returned.valid
    /\ ~returned.escaped
    /\ NodesOf(returned.trace) = StageOrder("quiz")
    /\ Has(returned.trace, Fail("embed_query"))
    /\ returned.state.turn_count = 2

\* C22: a turn runs exactly one generator: the quiz generator if routing
\* after the router stage is quiz_me, the Socratic one for every other
\* routing, unset included.
C22_OneGeneratorByRouting ==
    /\ \A routing \in {"new_question", "answer_to_my_question", "frustrated_interruption",
                       "request_for_visual", None} :
        routing_decision([create_initial_state("u1", "s1", 0) EXCEPT !.routing = routing])
            = "socrates"
    /\ routing_decision([create_initial_state("u1", "s1", 0) EXCEPT !.routing = "quiz_me"])
            = "quiz"
    /\ \A t \in Tasks :
        tasks[t].pc \in {"socrates", "quiz"} =>
            (tasks[t].pc = "quiz" <=> tasks[t].st.routing = "quiz_me")
    /\ (returned.valid /\ ~returned.escaped) =>
        /\ Has(returned.trace, Ev("node", "quiz", ""))
              <=> returned.state.routing = "quiz_me"
        /\ Has(returned.trace, Ev("node", "socrates", ""))
              <=> returned.state.routing # "quiz_me"
        /\ Len(SelectSeq(NodesOf(returned.trace),
                         LAMBDA node : node \in {"socrates", "quiz"})) = 1

\* A visual request has been answered by the Socratic generator and, in
\* the same session, a quiz request by the quiz generator.
C22_VisualRequestToSocrates ==
    /\ returned.valid
    /\ ~returned.escaped
    /\ returned.state.routing = "request_for_visual"
    /\ Has(returned.trace, Ev("node", "socrates", ""))
    /\ ~Has(returned.trace, Ev("node", "quiz", ""))

\* The turns whose router stage has just returned
Routing == {t \in Tasks : tasks[t].pc = "rag"}

Min(a, b) == IF a < b THEN a ELSE b

\* C23: the router stage leaves frustration_level at min(level before + 1,
\* 5) when it routes to frustrated_interruption and at the level before in
\* every other case.
C23_FrustrationCountsFrustratedTurns ==
    \A t \in Routing :
        tasks[t].st.frustration_level =
            IF tasks[t].st.routing = "frustrated_interruption"
            THEN Min(tasks[t].stage.frustration_level + 1, 5)
            ELSE tasks[t].stage.frustration_level

\* The router has detected frustration in a session already at level 5.
C23_FrustrationSaturated ==
    \E t \in Routing :
        /\ tasks[t].st.routing = "frustrated_interruption"
        /\ tasks[t].stage.frustration_level = 5
        /\ tasks[t].st.frustration_level = 5

LabelCaseOf(text) == CHOOSE c \in LabelCases : LabelCaseName(c) = text

\* What the claim expects of a case: the first label, in the fixed order,
\* that one of the two words holds
ExpectedRouting(c) ==
    IF c.first.labels \cup c.second.labels = {} THEN "new_question"
    ELSE LabelOrder[Smallest(c.first.labels \cup c.second.labels)]

\* C24: whatever the raw classification text, routing is the first label,
\* in the order NEW_QUESTION, ANSWER_TO_MY_QUESTION, FRUSTRATED or
\* FRUSTRATION, VISUAL, QUIZ, whose substring occurs in the text in any
\* case, and new_question when none occurs.
C24_FirstLabelInOrderWins ==
    \A t \in Routing :
        tasks[t].st.routing = ExpectedRouting(LabelCaseOf(tasks[t].st.last_user_text))

\* A reply that names the quiz before the answer label, in mixed case, is
\* routed to answer_to_my_question.
C24_EarlierLabelBeatsEarlierPosition ==
    \E t \in Routing :
        /\ LabelCaseOf(tasks[t].st.last_user_text).first.text = "Quiz_Me"
        /\ LabelCaseOf(tasks[t].st.last_user_text).second.text = "Answer_To_My_Question"
        /\ tasks[t].st.routing = "answer_to_my_question"

\* C25: when the router's classification call fails, routing is
\* new_question and error is set, whatever routing the previous turn left;
\* when last_user_text is blank, routing is new_question and the call is
\* not made.
C25_RouterFallsBackToNewQuestion ==
    \A t \in Routing :
        /\ Has(tasks[t].trace, Fail("generate_text")) =>
               /\ tasks[t].st.routing = "new_question"
               /\ tasks[t].st.error = "Router error"
        /\ blank(tasks[t].st.last_user_text) =>
               /\ tasks[t].st.routing = "new_question"
               /\ ~Called(tasks[t].trace, "generate_text")

\* The classification has failed in a session whose previous turn was
\* routed to frustrated_interruption.
C25_FailedAfterFrustratedTurn ==
    \E t \in Routing :
        /\ Has(tasks[t].trace, Fail("generate_text"))
        /\ ~blank(tasks[t].st.last_user_text)
        /\ heap[tasks[t].obj].routing = "frustrated_interruption"
        /\ tasks[t].st.routing = "new_question"
        /\ tasks[t].st.error = "Router error"

\* The turns whose load_memory stage has just returned
Loaded == {t \in Tasks : InFlight(t) /\ NodesOf(tasks[t].trace) = <<"load_memory">>}

\* What the recall store holds for the user of a turn
RecordsFor(t) == get_memory(memory_store, tasks[t].st.user_id)

MasteredIn(records) == UNION {m.memory_data.mastered : m \in records}

ConfusedIn(records) == UNION {m.memory_data.confused : m \in records}

\* C26: after load_memory_node, if the store returned records for the
\* user, memory_summary.mastered is the union of their mastered lists and
\* memory_summary.confused the union of their confused lists minus that
\* set; if it returned none or the fetch failed, both are empty; in each
\* case the turn goes on to the router.
C26_LoadMergesRecords ==
    \A t \in Loaded :
        /\ tasks[t].pc = "router"
        /\ tasks[t].st.memory_summary.present
        /\ tasks[t].st.memory_summary.mastered =
               IF Has(tasks[t].trace, Fail("get_memory")) THEN {}
               ELSE MasteredIn(RecordsFor(t))
        /\ tasks[t].st.memory_summary.confused =
               IF Has(tasks[t].trace, Fail("get_memory")) THEN {}
               ELSE ConfusedIn(RecordsFor(t)) \ MasteredIn(RecordsFor(t))

\* Three records of the user, one of them written by this session, were
\* merged: a topic one record has as confused and another as mastered is
\* mastered only.
C26_ThreeRecordsMerged ==
    \E t \in Loaded :
        /\ ~Has(tasks[t].trace, Fail("get_memory"))
        /\ Cardinality(RecordsFor(t)) = 3
        /\ \E m \in RecordsFor(t) : m.session_id = tasks[t].st.session_id
        /\ "loops" \in ConfusedIn(RecordsFor(t))
        /\ "loops" \in tasks[t].st.memory_summary.mastered
        /\ "loops" \notin tasks[t].st.memory_summary.confused
        /\ tasks[t].st.memory_summary.confused # {}

\* The turns whose update_memory stage has just returned after a write
Updated ==
    {t \in Tasks :
        /\ tasks[t].pc = "tts"
        /\ Called(tasks[t].trace, "upsert_memory")
        /\ ~Has(tasks[t].trace, Fail("upsert_memory"))}

\* The analyses generate_json may return in the turn on an utterance
AnalysesFor(text) ==
    {o.analysis : o \in {i \in (IF text = PriorText THEN PriorInputs.memory
                                ELSE TurnInputs.memory) : i.analysis.ok}}

\* C27: a successful update_memory_node at an interval turn leaves
\* mastered' = mastered + analysis.mastered and confused' = (confused +
\* analysis.confused) - mastered', for the sets memory_summary had before
\* the stage; no topic leaves mastered and none of mastered' is in
\* confused'.
C27_UpdateMergesAnalysis ==
    \A t \in Updated :
        /\ tasks[t].st.turn_count % memory_update_interval = 0
        /\ \E a \in AnalysesFor(tasks[t].st.last_user_text) :
            /\ tasks[t].st.memory_summary.mastered =
                   tasks[t].stage.memory_summary.mastered \cup a.mastered
            /\ tasks[t].st.memory_summary.confused =
                   (tasks[t].stage.memory_summary.confused \cup a.confused)
                       \ tasks[t].st.memory_summary.mastered
        /\ tasks[t].stage.memory_summary.mastered \subseteq tasks[t].st.memory_summary.mastered
        /\ tasks[t].st.memory_summary.mastered \cap tasks[t].st.memory_summary.confused = {}

\* An update has merged an analysis that has a topic both as mastered and
\* as confused, and as confused a topic the summary had as mastered.
C27_MasteredOverridesAnalysis ==
    \E t \in Updated :
        /\ tasks[t].st.last_user_text = "What is in that PDF?"
        /\ tasks[t].stage.memory_summary.mastered = {"loops"}
        /\ tasks[t].stage.memory_summary.confused = {"pointers"}
        /\ tasks[t].st.memory_summary.mastered = {"loops", "recursion"}
        /\ tasks[t].st.memory_summary.confused = {"pointers"}

\* The records of the store under one key
RecordsOf(store, user_id, session_id) ==
    {p \in store : p.user_id = user_id /\ p.session_id = session_id}

\* Task t's update_memory stage returns in this step after a write
Writes(t) ==
    /\ tasks[t].pc = "update_memory"
    /\ tasks'[t].pc = "tts"
    /\ Called(tasks'[t].trace, "upsert_memory")
    /\ ~Has(tasks'[t].trace, Fail("upsert_memory"))

\* C28: the recall store never holds two records of one (user_id,
\* session_id) pair; a successful update_memory write leaves, under its
\* session's key, the memory summary of that stage and nothing else, and
\* leaves the other keys' records alone; no other step changes the store.
C28_OneRecordPerSession ==
    /\ [](\A p \in memory_store, q \in memory_store :
            (p.user_id = q.user_id /\ p.session_id = q.session_id) => p = q)
    /\ [][/\ \A t \in Tasks :
                Writes(t) =>
                    /\ RecordsOf(memory_store', tasks[t].st.user_id, tasks[t].st.session_id)
                          = {[user_id |-> tasks[t].st.user_id,
                              session_id |-> tasks[t].st.session_id,
                              memory_data |-> tasks'[t].st.memory_summary]}
                    /\ memory_store' \ RecordsOf(memory_store', tasks[t].st.user_id,
                                                 tasks[t].st.session_id)
                          = memory_store \ RecordsOf(memory_store, tasks[t].st.user_id,
                                                     tasks[t].st.session_id)
          /\ (\A t \in Tasks : ~Writes(t)) => memory_store' = memory_store]_vars

\* The second write of a session has replaced its first record by another
\* summary, beside the record of the user's other session.
C28_SecondWriteReplacedFirst ==
    \E t \in Updated :
        /\ tasks[t].st.turn_count = 4
        /\ "pointers" \in tasks[t].st.memory_summary.mastered
        /\ RecordsOf(memory_store, "u1", tasks[t].st.session_id)
              = {[user_id |-> "u1", session_id |-> tasks[t].st.session_id,
                  memory_data |-> tasks[t].st.memory_summary]}
        /\ \E p \in memory_store :
            /\ p.user_id = "u1"
            /\ p.session_id \in {"s1", "s2"} \ {tasks[t].st.session_id}
            /\ "pointers" \notin p.memory_data.mastered

\* The turns whose update_memory stage has just called the analysis
Analysed == {t \in Tasks : tasks[t].pc = "tts" /\ Called(tasks[t].trace, "generate_json")}

\* Where the k-th turn of a session begins in its messages
TurnStart(messages, k) ==
    CHOOSE i \in 1..Len(messages) :
        /\ messages[i].role = "student"
        /\ Cardinality({j \in 1..i : messages[j].role = "student"}) = k

\* The messages of turn k and of the turns after it
SinceTurn(messages, k) == SubSeq(messages, TurnStart(messages, k), Len(messages))

\* C29: the context update_memory_node sends to the analysis at turn N
\* holds the messages of turns N - interval + 1 to N and no message of an
\* earlier turn.
C29_ContextIsLastIntervalTurns ==
    \A t \in Analysed :
        analysis_context(lists[tasks[t].st.messages]) =
            get_conversation_context(
                SinceTurn(lists[tasks[t].st.messages],
                          tasks[t].st.turn_count - memory_update_interval + 1),
                0)

\* At the second interval turn the context begins with the tutor's answer
\* of the turn before the interval and ends with the student's utterance
\* of this turn, whose answer is not yet in the list.
C29_ContextBeginsInEarlierTurn ==
    \E t \in Analysed :
        /\ tasks[t].st.turn_count = 2 * memory_update_interval
        /\ Len(lists[tasks[t].st.messages]) = 2 * tasks[t].st.turn_count - 1
        /\ LastN(lists[tasks[t].st.messages], 2 * memory_update_interval)[1].role = "tutor"
        /\ TurnStart(lists[tasks[t].st.messages],
                     tasks[t].st.turn_count - memory_update_interval + 1)
              = Len(lists[tasks[t].st.messages]) - 2 * memory_update_interval + 2
        /\ Last(lists[tasks[t].st.messages]).role = "student"
        /\ tasks[t].st.response_text # ""

PrefixOf(short, long) ==
    /\ Len(short) <= Len(long)
    /\ SubSeq(long, 1, Len(short)) = short

\* C30: messages are only appended. No step removes, reorders or rewrites
\* a message of a list or gives a turn in flight another list; what
\* process_user_input returns extends the messages it was called with, and
\* the messages a turn in flight sees extend those its last stage was
\* given.
C30_MessagesAppendOnly ==
    /\ [][/\ \A l \in DOMAIN lists \cap DOMAIN lists' : PrefixOf(lists[l], lists'[l])
          /\ \A t \in Tasks :
                (InFlight(t) /\ tasks'[t].pc # "idle")
                    => tasks'[t].st.messages = tasks[t].st.messages]_vars
    /\ [](returned.valid => PrefixOf(returned.before.messages, returned.messages))
    /\ [](\A t \in Tasks :
            InFlight(t) => PrefixOf(tasks[t].stage.messages, lists[tasks[t].st.messages]))

\* Two turns of one session have both appended to its list: the two
\* utterances first, then the two answers.
C30_TwoTurnsAppended ==
    /\ returned.valid
    /\ Len(returned.messages) = 4
    /\ Len(returned.before.messages) = 1
    /\ returned.messages[2].role = "student"
    /\ returned.messages[3].role = "tutor"
    /\ returned.messages[4].role = "tutor"

\* The turns whose retrieval stage has just returned
Retrieved ==
    {t \in Tasks : tasks[t].pc \in {"socrates", "quiz"} /\ Has(tasks[t].trace, Ev("node", "rag", ""))}

Searched(trace) == Called(trace, "search_notes") /\ ~Has(trace, Fail("search_notes"))

\* C31: after the retrieval stage, rag_context is what this turn's search
\* returned, or empty when the intent needs no retrieval, the query is
\* blank or a call failed; a passage of an earlier turn is in it only if
\* this turn's search returned it.
C31_ContextOfThisTurn ==
    \A t \in Retrieved :
        tasks[t].st.rag_context =
            IF Searched(tasks[t].trace) THEN ResultsFor(tasks[t].st.last_user_text)
            ELSE <<>>

\* After a turn that retrieved Passage, the search of this turn returned
\* another passage only, and rag_context holds that one alone.
C31_EarlierPassageReplaced ==
    \E t \in Retrieved :
        /\ heap[tasks[t].obj].rag_context = <<Passage>>
        /\ Searched(tasks[t].trace)
        /\ tasks[t].st.rag_context = <<NewPassage>>

StageFailed(trace) == \E i \in 1..Len(trace) : trace[i].kind = "fail"

\* C32: the state process_user_input returns has an error exactly when a
\* stage of this call failed or an exception escaped the stages; an error
\* of an earlier turn does not survive, and a stage's error is still there
\* at the return.
C32_ErrorIffFailedThisTurn ==
    returned.valid =>
        (returned.state.error # None <=> (StageFailed(returned.trace) \/ returned.escaped))

\* After turns that ended with an error, a turn in which only the memory
\* fetch failed returns that stage's error, the later stages having run.
C32_LoadErrorKeptToTheReturn ==
    /\ returned.valid
    /\ ~returned.escaped
    /\ returned.before.turn_count >= 1
    /\ NodesOf(returned.trace) \in FullTurns
    /\ Has(returned.trace, Fail("get_memory"))
    /\ returned.state.error = "Memory load error"

\* The generator of the turn has run and its generation call failed
GeneratorFailed(trace) ==
    \E i \in 1..Len(trace) :
        /\ trace[i] = Fail("generate_text")
        /\ RunningAt(trace, i) \in {"socrates", "quiz"}

FallbackOf(trace) ==
    IF Has(trace, Ev("node", "quiz", "")) THEN QuizFallback ELSE SocratesFallback

\* C33: when the generation call of the turn's generator fails, the stage
\* leaves its fixed fallback text, no visual action, should_tts true and an
\* error; the synthesis stage is then attempted on the fallback text, which
\* is what the turn returns.
C33_GeneratorFailureFallsBack ==
    /\ \A t \in Tasks :
        (tasks[t].pc = "update_memory" /\ GeneratorFailed(tasks[t].trace)) =>
            /\ tasks[t].st.response_text = FallbackOf(tasks[t].trace)
            /\ ~blank(tasks[t].st.response_text)
            /\ tasks[t].st.visual_actions = <<>>
            /\ tasks[t].st.should_tts = TRUE
            /\ tasks[t].st.error \in {"Socrates error", "Quiz error"}
    /\ (returned.valid /\ ~returned.escaped /\ GeneratorFailed(returned.trace)) =>
            /\ Has(returned.trace, Fail("get_global_tts"))
            /\ returned.state.response_text = FallbackOf(returned.trace)
            /\ returned.state.visual_actions = <<>>
            /\ returned.state.error # None

\* The quiz generator has failed in a turn that follows one with a visual
\* action; the turn returned the quiz fallback after synthesis was tried.
C33_QuizFellBack ==
    /\ returned.valid
    /\ ~returned.escaped
    /\ returned.before.turn_count >= 1
    /\ GeneratorFailed(returned.trace)
    /\ returned.state.routing = "quiz_me"
    /\ returned.state.response_text = QuizFallback
    /\ Has(returned.trace, Fail("get_global_tts"))
    /\ Last(returned.messages) = [role |-> "tutor", content |-> QuizFallback]

\* The student messages of a list
Students(messages) == {i \in 1..Len(messages) : messages[i].role = "student"}

Settled(sid) ==
    /\ active_sessions[sid] # 0
    /\ \A t \in Tasks : InFlight(t) => tasks[t].sid # sid

\* C34: in every state of a session in which no turn is in flight, the
\* number of student messages in messages equals turn_count.
C34_StudentMessagesEqualTurnCount ==
    \A sid \in Sids :
        Settled(sid) =>
            Cardinality(Students(lists[heap[active_sessions[sid]].messages]))
                = heap[active_sessions[sid]].turn_count

\* Two turns of one session have overlapped and ended: the list holds two
\* student messages and the stored state counts one turn.
C34_OverlapLostATurn ==
    \E sid \in Sids :
        /\ Settled(sid)
        /\ Cardinality(Students(lists[heap[active_sessions[sid]].messages])) = 2
        /\ heap[active_sessions[sid]].turn_count = 1

\* C35: no stage and no step of process_user_input changes the mode field:
\* it is socratic in every session state, in the state every stage of a
\* turn works on and in every returned state, quiz turns included.
C35_ModeStaysSocratic ==
    /\ \A o \in DOMAIN heap : heap[o].mode = "socratic"
    /\ \A t \in Tasks : InFlight(t) => tasks[t].st.mode = "socratic"
    /\ returned.valid => returned.state.mode = "socratic"

\* A turn in which the quiz generator produced a question has returned to
\* a session that had a turn before it.
C35_QuizTurnReturnedSocratic ==
    /\ returned.valid
    /\ ~returned.escaped
    /\ returned.before.turn_count >= 1
    /\ Has(returned.trace, Ev("node", "quiz", ""))
    /\ ~GeneratorFailed(returned.trace)
    /\ returned.state.mode = "socratic"

\* The record of the turn's own session in the recall store
OwnRecords(t) ==
    {p \in memory_store : /\ p.user_id = tasks[t].st.user_id
                          /\ p.session_id = tasks[t].st.session_id}

\* The turn before this one wrote the session's summary
WrittenLastTurn(t) ==
    /\ tasks[t].before.turn_count >= 1
    /\ tasks[t].before.turn_count % memory_update_interval = 0
    /\ OwnRecords(t) # {}

\* C36: after update_memory_node has written the session's summary at turn
\* N, a load_memory_node whose fetch succeeds at turn N+1 yields a mastered
\* set that contains every mastered topic of the written summary, however
\* many records of the user's other sessions the store holds.
C36_WrittenMasteredRecalled ==
    \A t \in Loaded :
        (WrittenLastTurn(t) /\ ~Has(tasks[t].trace, Fail("get_memory"))) =>
            \A p \in OwnRecords(t) :
                p.memory_data.mastered \subseteq tasks[t].st.memory_summary.mastered

\* The user has more records than the limit of the fetch; the page of turn
\* N+1 left out the session's own record, and a topic the session mastered
\* at turn N is missing from the loaded summary.
C36_OwnRecordBeyondTheLimit ==
    \E t \in Loaded :
        /\ WrittenLastTurn(t)
        /\ ~Has(tasks[t].trace, Fail("get_memory"))
        /\ Cardinality(get_memory(memory_store, tasks[t].st.user_id)) > memory_limit
        /\ \E p \in OwnRecords(t) : "recursion" \in p.memory_data.mastered
        /\ "recursion" \notin tasks[t].st.memory_summary.mastered

\* A call of process_user_input begins in this step
Invoked(t) == ~InFlight(t) /\ tasks'[t].pc = "load_memory"

NonDecreasing(seq) == \A i \in 1..Len(seq) - 1 : seq[i] <= seq[i + 1]

Finished == {"completed", "failed"}

\* C38: the status of every upload job starts as processing and changes
\* only to completed or to failed, and never after that; a completed job
\* has progress 100 and the milestones reported for it were non-decreasing,
\* taken in order from 10, 40, 60, 80, 100; a job whose process_document
\* failed has reported progress 0, has progress 0 and status failed.
C38_UploadStatusLifecycle ==
    /\ [](\A j \in DOMAIN upload_status :
            /\ upload_status[j].status \in {"processing"} \cup Finished
            /\ upload_status[j].status = "completed" =>
                  /\ upload_status[j].progress = 100
                  /\ NonDecreasing(jobs[j].reported)
                  /\ jobs[j].reported = <<10, 40, 60, 80, 100>>
            /\ upload_status[j].status = "failed" <=> Has(jobs[j].reported, 0)
            /\ upload_status[j].status = "failed" =>
                  /\ upload_status[j].progress = 0
                  /\ Last(jobs[j].reported) = 0)
    /\ [][\A j \in DOMAIN upload_status' :
            /\ j \notin DOMAIN upload_status => upload_status'[j].status = "processing"
            /\ j \in DOMAIN upload_status =>
                  /\ upload_status[j].status \in Finished =>
                        upload_status'[j] = upload_status[j]
                  /\ upload_status'[j].status # upload_status[j].status =>
                        /\ upload_status[j].status = "processing"
                        /\ upload_status'[j].status \in Finished
         ]_vars

\* One job has completed after two chunks and the other has failed after
\* having reported 60.
C38_OneCompletedOneFailed ==
    /\ DOMAIN upload_status = JobIds
    /\ upload_status[1] = [status |-> "completed", progress |-> 100]
    /\ upload_status[2] = [status |-> "failed", progress |-> 0]
    /\ jobs[2].reported = <<10, 40, 60, 0>>

Terminal(e) ==
    \/ e = Emit("session_status", "status", "complete")
    \/ e.event = "error"

\* The place of an event in the answer to a turn
Rank(e) ==
    CASE e.event = "transcript" -> 1
      [] e.event = "visual" -> 2
      [] e.event = "audio_response" -> 3
      [] OTHER -> 4

IsVisual(e) == e.event = "visual"

\* events is the answer to a turn that returned state
AnswerTo(events, state) ==
    /\ events # <<>>
    /\ Terminal(Last(events))
    /\ \A i \in 1..Len(events) - 1 : ~Terminal(events[i])
    /\ \A i \in 1..Len(events) - 1 : Rank(events[i]) <= Rank(events[i + 1])
    /\ \A i \in 1..Len(events) :
          Rank(events[i]) = 1 => events[i] = Emit("transcript", "tutor", state.response_text)
    /\ Cardinality({i \in 1..Len(events) : Rank(events[i]) = 1})
          = IF state.response_text = "" THEN 0 ELSE 1
    /\ LET sent == SelectSeq(events, IsVisual) IN
          /\ Len(sent) = Len(state.visual_actions)
          /\ \A i \in 1..Len(sent) :
                /\ sent[i].key = state.visual_actions[i].action
                /\ sent[i].value = state.visual_actions[i].payload

NonBlank(text) == \E p \in 0..(text.len - 1) : p \notin text.spaces \cup text.newlines

\* C40: chunk_text with chunk_size 512 and overlap 50 terminates: every
\* iteration of its loop moves start forward, the call returns, and every
\* position of a non-blank text lies in the source range of a chunk.
C40_ChunkTextTerminatesAndCovers ==
    /\ [][Len(chunker'.chunks) # Len(chunker.chunks) => chunker'.start > chunker.start]_vars
    /\ <>(chunker.pc = "returned")
    /\ [](chunker.pc = "returned" /\ NonBlank(chunker.text) =>
            \A p \in 0..(chunker.text.len - 1) :
                \E i \in 1..Len(chunker.chunks) :
                    chunker.chunks[i].from <= p /\ p < chunker.chunks[i].to)

\* A text of more than two chunk sizes has been cut into three chunks or
\* more, one of which ends at a sentence boundary.
C40_CutAtABoundary ==
    /\ chunker.pc = "returned"
    /\ chunker.text.len > 2 * chunk_size
    /\ Len(chunker.chunks) >= 3
    /\ \E i \in 1..Len(chunker.chunks) :
          /\ chunker.chunks[i].to < chunker.text.len
          /\ chunker.chunks[i].to - chunker.chunks[i].from < chunk_size

====
